---- MODULE Spec2Model ----
(***************************************************************************)
(* The authenticated API client (request, refreshAccessToken, djangoApi    *)
(* .auth) and the Session Store (authStore) of ai_manager_app.             *)
(*                                                                         *)
(* Every async function is cut at its awaits on the network (fetch,        *)
(* response.json(), response.text()): one action per segment between two   *)
(* of them.  The continuation of `await request(...)` in login, register   *)
(* and logout runs in the action in which request ends.  The server is an  *)
(* adversary: every response is drawn from a small set when it is received.*)
(* The repository holds the client twice, frontend (request) and           *)
(* do-smart-ai (apiRequest); impl says which one a behaviour runs.         *)
(* Both import the Session Store as "@/lib/authStore"; the one file of it  *)
(* in the repository, frontend/src/lib/authStore.ts, is the store of both. *)
(***************************************************************************)
EXTENDS Integers, Sequences, FiniteSets, TLC

VARIABLES
    impl,       \* which of the two client modules runs: "frontend" (request) or
                \* "do-smart-ai" (apiRequest)
    keep,       \* whether the record of an ended call stays in its slot
    writer,     \* with keep: the slot of the call whose refresh wrote last (0: none)
    isBrowser,  \* authStore.ts:19   typeof window !== "undefined"
    storage,    \* window.localStorage[STORAGE_KEY]: <<>> (no item) or the text
    calls,      \* one record per API call in flight (its locals and its position)
    last,       \* the record of the call that ended in the last step, if one did
    started,    \* number of API calls started so far
    written,    \* SpecStore: the value handed to the most recent store write
    got,        \* SpecStore: the last store call and what getState() last returned
    listeners,  \* authStore.ts:17  the Set of listeners, in insertion order
    subs,       \* per listener, the last of subscribe / unsubscribe called for it
    notified,   \* the listener invocations made by the last store call, in order
    before,     \* the storage text when the last store call began
    arg,        \* the argument of the last store call
    norm,       \* SpecNorm, SpecTwin: the inputs drawn for a function of the client,
                \* then its call and its result
    provider    \* useAuth.tsx: AuthProvider's authState and session, and its effect

vars == <<impl, keep, writer, isBrowser, storage, calls, last, started, written, got,
          listeners, subs, notified, before, arg, norm, provider>>

\* the subscription side of the store and the record of the last store call
lvars == <<listeners, subs, notified, before, arg>>

----------------------------------------------------------------------------
(* Bounds *)

MaxStarts == 2      \* API calls started in one behaviour

Slots == {1, 2}     \* calls that can be in flight together

----------------------------------------------------------------------------
(* JavaScript values *)

Undef == "<undefined>"          \* a field that is absent (undefined)
JNull == "<null>"               \* the value null
NotAString == "<object>"        \* a JSON value that is no string (object, list)

\* typeof v === "string"
IsString(v) == v \notin {Undef, JNull, NotAString}

Null == <<>>                    \* null / undefined object: the empty option
Some(v) == <<v>>

Num(n) == [t |-> "num", n |-> n, s |-> ""]
Str(s) == [t |-> "str", n |-> 0, s |-> s]
NoId == [t |-> "undefined", n |-> 0, s |-> ""]      \* an id field that is absent
NullId == [t |-> "null", n |-> 0, s |-> ""]         \* an id field that is null

Digits == <<"0", "1", "2", "3", "4", "5", "6", "7", "8", "9">>

RECURSIVE DecimalString(_)
DecimalString(n) ==
    IF n < 10 THEN Digits[n + 1]
    ELSE DecimalString(n \div 10) \o Digits[(n % 10) + 1]

\* String(v) for v a number or a string
String(v) == IF v.t = "num" THEN DecimalString(v.n) ELSE v.s

\* a ?? b
Coalesce(a, b) == IF a \notin {Undef, JNull} THEN a ELSE b

\* v !== undefined && v !== null, for an id field
Present(v) == v.t \notin {"undefined", "null"}

\* v is truthy, for an id field: 0 and "" are not
TruthyId(v) == (v.t = "num" /\ v.n # 0) \/ (v.t = "str" /\ v.s # "")

\* norm before a normalize function is called: the payload at hand, if any
NoNorm == [fn |-> "none", kind |-> "none"]
Payload(kind, payload) == [fn |-> "none", kind |-> kind, payload |-> payload]

----------------------------------------------------------------------------
(* What the backend can send *)

AccessTokens == {"A1", "A2"}
RefreshTokens == {"R1", "R2"}

NoBody == [kind |-> "object", access |-> Undef, refresh |-> Undef, user |-> Null,
           detail |-> Undef, message |-> Undef, payload |-> Undef, me |-> Null]

GrantBody(a, r, u) == [NoBody EXCEPT !.access = a, !.refresh = r, !.user = Some(u)]
AccessBody(a) == [NoBody EXCEPT !.access = a]
DataBody(p) == [NoBody EXCEPT !.payload = p]
DetailBody(d) == [NoBody EXCEPT !.detail = d]
ErrorBody(d, m) == [NoBody EXCEPT !.detail = d, !.message = m]
MeBody(id, email, name, profile) ==
    [NoBody EXCEPT !.me = Some([id |-> id, email |-> email, name |-> name,
                                profile |-> profile])]
TextBody(t) == [NoBody EXCEPT !.kind = "text", !.payload = t]

JSON == "application/json"

\* A response: status line, Content-Type, whether the body text is valid JSON,
\* and the value the body text denotes.
Response(st, ct, ok, b) == [status |-> st, ctype |-> ct, valid |-> ok, body |-> b]

Grants ==
    { GrantBody("A1", "R1", [id |-> Num(7), email |-> "a@b.com", name |-> Undef]),
      GrantBody("A2", "R2", [id |-> Str("u2"), email |-> "c@d.com", name |-> "Cy"]) }

Failures ==
    { Response(401, JSON, TRUE, DetailBody("Unauthorized")),
      Response(401, JSON, FALSE, NoBody),
      Response(500, "text/plain", TRUE, TextBody("Server Error")) }

Paths == {"/tasks/", "/auth/login/", "/auth/register/", "/auth/logout/"}

\* GET /auth/me/: {id, email, name?, profile?}
MeResponses ==
    Failures \cup
    { Response(200, JSON, TRUE, MeBody(Num(7), "a@b.com", Undef, Null)),
      Response(200, JSON, TRUE,
               MeBody(Str("u2"), "c@d.com", Undef, Some([name |-> "Pro"]))),
      Response(200, JSON, TRUE,
               MeBody(Num(7), "a@b.com", "Al", Some([name |-> "Pro"]))),
      Response(200, JSON, FALSE, NoBody) }

\* DELETE /tasks/{id}/: 204, and every shape of body request tells apart
TaskResponses ==
    { Response(204, "", TRUE, NoBody),
      Response(204, JSON, FALSE, NoBody),
      Response(204, "text/plain", TRUE, TextBody("")),
      Response(200, JSON, TRUE, DataBody("task")),
      Response(200, JSON, FALSE, NoBody),
      Response(404, JSON, TRUE, ErrorBody("Not found.", "No such task")),
      Response(400, JSON, TRUE, ErrorBody(NotAString, "Bad request")),
      Response(400, JSON, TRUE, ErrorBody(Undef, "Bad request")),
      Response(400, JSON, TRUE, ErrorBody(NotAString, NotAString)),
      Response(400, JSON, TRUE, ErrorBody(Undef, Undef)),
      Response(500, "text/plain", TRUE, TextBody("Server Error")),
      Response(502, "", TRUE, NoBody),
      Response(500, JSON, FALSE, NoBody),
      Response(401, JSON, TRUE, DetailBody("Unauthorized")),
      Response(401, JSON, FALSE, NoBody) }

\* Responses of the endpoint behind `path`
Responses(path) ==
    IF path = "/auth/me/" THEN MeResponses
    ELSE IF path = "/tasks/1/" THEN TaskResponses
    ELSE
    Failures \cup
    IF path \in {"/auth/login/", "/auth/register/"}
    THEN {Response(200, JSON, TRUE, g) : g \in Grants}
    ELSE IF path = "/auth/logout/"
    THEN {Response(204, "", TRUE, NoBody)}
    ELSE {Response(200, JSON, TRUE, DataBody("tasks")),
          Response(200, JSON, FALSE, NoBody)}

RefreshResponses ==
    {Response(200, JSON, TRUE, AccessBody(a)) : a \in AccessTokens \cup {Undef}} \cup
    { Response(200, JSON, FALSE, NoBody),
      Response(401, JSON, TRUE, DetailBody("Token is invalid")) }

AllResponses == UNION {Responses(p) : p \in Paths}

\* with the endpoints of getCurrentUser and deleteTask
SeqPaths == Paths \cup {"/auth/me/", "/tasks/1/"}

AllSeqResponses == UNION {Responses(p) : p \in SeqPaths}

\* the refresh fetch rejected (no response)
NoResponse == Response(0, "", FALSE, NoBody)

\* response.ok
Ok(resp) == resp.status >= 200 /\ resp.status <= 299

----------------------------------------------------------------------------
(* Session Store: src/frontend/src/lib/authStore.ts *)

\* JSON.stringify of a StoredAuthState: the text kept in localStorage
JSONstringify(state) ==
    <<state.tokens.access, state.tokens.refresh,
      state.user.id, state.user.email, state.user.name>>

ValidStateText(raw) == Len(raw) = 5

\* JSON.parse of a text written by JSONstringify
JSONparse(raw) ==
    [tokens |-> [access |-> raw[1], refresh |-> raw[2]],
     user |-> [id |-> raw[3], email |-> raw[4], name |-> raw[5]]]

\* texts in localStorage that JSON.parse rejects: no JSON, and a text cut short
CorruptTexts == {<<"{oops">>, <<"A1", "R1">>}

\* JSON.parse(raw) throws a SyntaxError
JSONparseThrows(raw) == ~ValidStateText(raw)

\* faulty variant: readStorage without its try block
readStorageThrowsUncaught(browser, raw) ==
    IF ~browser THEN FALSE
    ELSE IF raw = <<>> THEN FALSE
    ELSE JSONparseThrows(raw)

\* readStorage ends by throwing: never, since JSON.parse stands in the try
\* block, whose catch logs the error and returns null
readStorageThrows(browser, raw) ==
    IF ~browser THEN FALSE
    ELSE IF raw = <<>> THEN FALSE
    ELSE IF JSONparseThrows(raw) THEN FALSE
    ELSE FALSE

readStorage(browser, raw) ==
    IF ~browser THEN Null
    ELSE IF raw = <<>> THEN Null
    ELSE IF ~ValidStateText(raw) THEN Null
    ELSE Some(JSONparse(raw))

\* faulty variant: writeStorage(null) leaves the item in place
writeStorageKeeps(browser, raw, state) ==
    IF ~browser THEN raw
    ELSE IF state # Null THEN JSONstringify(state[1])
    ELSE raw

\* the storage text after writeStorage(state)
writeStorage(browser, raw, state) ==
    IF ~browser THEN raw
    ELSE IF state # Null THEN JSONstringify(state[1])
    ELSE <<>>

getState(browser, raw) == readStorage(browser, raw)

setState(browser, raw, state) == writeStorage(browser, raw, Some(state))

\* faulty variant: clear() of an empty store stores the text of null
clearWritesNull(browser, raw) ==
    IF ~browser THEN raw
    ELSE IF raw = <<>> THEN <<"null">> ELSE <<>>

clear(browser, raw) == writeStorage(browser, raw, Null)

\* faulty variant: updateUser writes the user without the tokens
updateUserDropsTokens(browser, raw, user) ==
    LET current == readStorage(browser, raw) IN
    IF current = Null THEN raw
    ELSE writeStorage(browser, raw,
             Some([tokens |-> [access |-> Undef, refresh |-> Undef], user |-> user]))

updateUser(browser, raw, user) ==
    LET current == readStorage(browser, raw) IN
    IF current = Null THEN raw
    ELSE writeStorage(browser, raw, Some([current[1] EXCEPT !.user = user]))

\* the session updateUser(user) writes and notifies: none without a session
updateUserNext(browser, raw, user) ==
    LET current == readStorage(browser, raw) IN
    IF current = Null THEN Null
    ELSE Some([current[1] EXCEPT !.user = user])

\* the elements of a Set, kept in insertion order
Elements(set) == {set[i] : i \in 1..Len(set)}

\* listeners.add(listener): a Set holds a value once
add(set, listener) ==
    IF listener \in Elements(set) THEN set ELSE Append(set, listener)

\* faulty variant: unsubscribe() leaves the listener in the Set
deleteKeeps(set, listener) == set

\* listeners.delete(listener)
delete(set, listener) == SelectSeq(set, LAMBDA l : l # listener)

\* faulty variant: listeners are not told of a null state
notifySkipsNull(set, state) ==
    IF state = Null THEN <<>>
    ELSE [i \in 1..Len(set) |-> [listener |-> set[i], state |-> state]]

\* notify(state): each listener of the Set is called with state, in insertion
\* order; the result is the sequence of calls made
notify(set, state) ==
    [i \in 1..Len(set) |-> [listener |-> set[i], state |-> state]]

----------------------------------------------------------------------------
(* API client: src/unnamed/part_000 *)

\* faulty variant: a missing name is not defaulted to the email
normalizeUserNoDefault(payload) ==
    [id |-> String(payload.id),
     email |-> Coalesce(payload.email, ""),
     name |-> Coalesce(payload.name, "")]

normalizeUser(payload) ==
    [id |-> String(payload.id),
     email |-> Coalesce(payload.email, ""),
     name |-> Coalesce(payload.name, Coalesce(payload.email, ""))]

\* do-smart-ai: normalizeUser
apiNormalizeUser(payload) ==
    [id |-> String(payload.id),
     email |-> payload.email,
     name |-> Coalesce(payload.name, payload.email)]

\* faulty variant: an absent description is left absent
normalizeTaskKeepsAbsent(payload) ==
    [id |-> String(payload.id),
     title |-> Coalesce(payload.title, ""),
     description |-> payload.description,
     dueDate |-> Coalesce(payload.dueDate, JNull),
     priority |-> Coalesce(payload.priority, "medium"),
     status |-> Coalesce(payload.status, "todo"),
     createdAt |-> Coalesce(payload.createdAt, ""),
     updatedAt |-> Coalesce(payload.updatedAt, ""),
     userId |-> IF Present(payload.userId) THEN String(payload.userId) ELSE ""]

normalizeTask(payload) ==
    [id |-> String(payload.id),
     title |-> Coalesce(payload.title, ""),
     description |-> Coalesce(payload.description, ""),
     dueDate |-> Coalesce(payload.dueDate, JNull),
     priority |-> Coalesce(payload.priority, "medium"),
     status |-> Coalesce(payload.status, "todo"),
     createdAt |-> Coalesce(payload.createdAt, ""),
     updatedAt |-> Coalesce(payload.updatedAt, ""),
     userId |-> IF Present(payload.userId) THEN String(payload.userId) ELSE ""]

\* do-smart-ai: normalizeTask
apiNormalizeTask(payload) ==
    [id |-> String(payload.id),
     title |-> payload.title,
     description |-> Coalesce(payload.description, ""),
     dueDate |-> Coalesce(payload.dueDate, JNull),
     priority |-> Coalesce(payload.priority, "medium"),
     status |-> Coalesce(payload.status, "todo"),
     createdAt |-> payload.createdAt,
     updatedAt |-> payload.updatedAt,
     userId |-> IF TruthyId(payload.userId) THEN String(payload.userId) ELSE ""]

normalizeHistoryItem(payload) ==
    [id |-> String(payload.id),
     title |-> Coalesce(payload.title, ""),
     query |-> Coalesce(payload.query, ""),
     response |-> Coalesce(payload.response, ""),
     createdAt |-> Coalesce(payload.createdAt, Coalesce(payload.created_at, "")),
     userId |-> IF Present(payload.userId) THEN String(payload.userId)
                ELSE IF Present(payload.user) THEN String(payload.user)
                ELSE ""]

NormalizedUser(payload) ==
    IF impl = "frontend" THEN normalizeUser(payload) ELSE apiNormalizeUser(payload)

\* state?.tokens.access / state?.tokens.refresh is truthy
HasAccess(state) == state # Null /\ state[1].tokens.access \notin {"", Undef}
HasRefresh(state) == state # Null /\ state[1].tokens.refresh \notin {"", Undef}

\* do-smart-ai: refreshAccessToken goes on unless (!state)
apiHasState(state) == state # Null

\* refreshAccessToken posts the refresh token of `state`
CanRefresh(state) ==
    IF impl = "frontend" THEN HasRefresh(state) ELSE apiHasState(state)

Bearer(token) == "Bearer " \o token

\* faulty variant: the stored access token is attached whatever skipAuth says
AuthorizationHeaderAlways(skipAuth, state) ==
    IF HasAccess(state) THEN Bearer(state[1].tokens.access) ELSE ""

\* the Authorization header request puts on the first attempt ("" = none)
AuthorizationHeader(skipAuth, state) ==
    IF ~skipAuth /\ HasAccess(state) THEN Bearer(state[1].tokens.access) ELSE ""

\* faulty variant: any error status starts a refresh
NeedsRefreshOnError(status, skipAuth, state) ==
    status >= 400 /\ ~skipAuth /\ HasRefresh(state)

\* the condition under which request calls refreshAccessToken
NeedsRefresh(status, skipAuth, state) ==
    status = 401 /\ ~skipAuth /\ HasRefresh(state)

\* faulty variant: the new access token is stored as the refresh token too
RefreshedStateRotates(state, access) ==
    [tokens |-> [access |-> access, refresh |-> access], user |-> state.user]

\* nextState of refreshAccessToken
RefreshedState(state, access) ==
    [tokens |-> [access |-> access, refresh |-> state.tokens.refresh],
     user |-> state.user]

\* faulty variant: the retry is made whatever refreshAccessToken returned
TruthyAlways(token) == TRUE

\* if (newAccess)
Truthy(token) == token \notin {"", Undef}

\* faulty variant: the retry goes out with the header of the first attempt
RetryHeaderStale(call, access) == call.auth

\* the Authorization header of the retry
RetryHeader(call, access) == Bearer(access)

\* faulty variant: every 401 starts a refresh, the retried one too
FirstAttemptOrRetry(call) == TRUE

\* the refresh decision is taken once, on the response of the first attempt
FirstAttempt(call) == Len(call.sent) = 1

\* faulty variant: the message field is looked at first
ErrorMessageMessageFirst(status, data) ==
    IF data # Null /\ data[1].kind = "object" /\ IsString(data[1].message)
    THEN data[1].message
    ELSE IF data # Null /\ data[1].kind = "object" /\ IsString(data[1].detail)
    THEN data[1].detail
    ELSE "Request failed with status " \o DecimalString(status)

\* the message of the typed error request throws
ErrorMessage(status, data) ==
    IF data # Null /\ data[1].kind = "object" /\ IsString(data[1].detail)
    THEN data[1].detail
    ELSE IF data # Null /\ data[1].kind = "object" /\ IsString(data[1].message)
    THEN data[1].message
    ELSE "Request failed with status " \o DecimalString(status)

\* do-smart-ai: data?.detail ?? data?.message ?? `Request failed ...`
apiErrorMessage(status, data) ==
    IF data # Null /\ data[1].detail \notin {Undef, JNull} THEN data[1].detail
    ELSE IF data # Null /\ data[1].message \notin {Undef, JNull} THEN data[1].message
    ELSE "Request failed with status " \o DecimalString(status)

\* faulty variant: request throws the 401 without clearing the session
ClearsSessionNever(status, skipAuth) == FALSE

\* faulty variant: request clears on every 401, the skipAuth calls included
ClearsSessionIgnoresSkipAuth(status, skipAuth) == status = 401

\* request clears the session before it throws
ClearsSession(status, skipAuth) == status = 401 /\ ~skipAuth

\* do-smart-ai: apiRequest throws without touching the store
apiClearsSession(status, skipAuth) == FALSE

ClearsOnError(status, skipAuth) ==
    IF impl = "frontend" THEN ClearsSession(status, skipAuth)
    ELSE apiClearsSession(status, skipAuth)

NoResult == [type |-> "none", status |-> 0, message |-> "", data |-> Null]
Returned(data) == [type |-> "return", status |-> 0, message |-> "", data |-> data]
ApiError(message, status, data) ==
    [type |-> "ApiError", status |-> status, message |-> message, data |-> data]
SyntaxError == [NoResult EXCEPT !.type = "SyntaxError"]
NetworkError == [NoResult EXCEPT !.type = "TypeError"]

\* the body value request reads off a response
ParsedBody(resp) ==
    IF resp.ctype = JSON THEN Some(resp.body)
    ELSE IF resp.ctype # "" THEN Some(TextBody(resp.body.payload))
    ELSE Null

\* do-smart-ai: JSON if declared, else response.text() whatever the type
apiParsedBody(resp) ==
    IF resp.ctype = JSON THEN Some(resp.body)
    ELSE Some(TextBody(resp.body.payload))

\* faulty variant: the status 204 is looked at after the body was read
Outcome204Late(resp) ==
    IF resp.ctype = JSON /\ ~resp.valid THEN SyntaxError
    ELSE IF resp.status = 204 THEN Returned(Null)
    ELSE IF ~Ok(resp)
         THEN ApiError(ErrorMessage(resp.status, ParsedBody(resp)),
                       resp.status, ParsedBody(resp))
         ELSE Returned(ParsedBody(resp))

\* faulty variant: a body that cannot be parsed is taken as no body
OutcomeParseCaught(resp) ==
    IF resp.status = 204 THEN Returned(Null)
    ELSE IF resp.ctype = JSON /\ ~resp.valid
    THEN IF ~Ok(resp)
         THEN ApiError(ErrorMessage(resp.status, Null), resp.status, Null)
         ELSE Returned(Null)
    ELSE IF ~Ok(resp)
         THEN ApiError(ErrorMessage(resp.status, ParsedBody(resp)),
                       resp.status, ParsedBody(resp))
         ELSE Returned(ParsedBody(resp))

\* faulty variant: the typed error does not carry the body
OutcomeWithoutData(resp) ==
    IF resp.status = 204 THEN Returned(Null)
    ELSE IF resp.ctype = JSON /\ ~resp.valid THEN SyntaxError
    ELSE IF ~Ok(resp)
         THEN ApiError(ErrorMessage(resp.status, ParsedBody(resp)),
                       resp.status, Null)
         ELSE Returned(ParsedBody(resp))

\* how request ends on its final response
Outcome(resp) ==
    IF resp.status = 204 THEN Returned(Null)
    ELSE IF resp.ctype = JSON /\ ~resp.valid THEN SyntaxError
    ELSE IF ~Ok(resp)
         THEN ApiError(ErrorMessage(resp.status, ParsedBody(resp)),
                       resp.status, ParsedBody(resp))
         ELSE Returned(ParsedBody(resp))

\* do-smart-ai: how apiRequest ends on its final response
apiOutcome(resp) ==
    IF resp.status = 204 THEN Returned(Null)
    ELSE IF resp.ctype = JSON /\ ~resp.valid THEN SyntaxError
    ELSE IF ~Ok(resp)
         THEN ApiError(apiErrorMessage(resp.status, apiParsedBody(resp)),
                       resp.status, apiParsedBody(resp))
         ELSE Returned(apiParsedBody(resp))

FinalOutcome(resp) == IF impl = "frontend" THEN Outcome(resp) ELSE apiOutcome(resp)

\* request awaits response.json() / response.text() before it ends
ReadsBody(resp) == resp.status # 204 /\ resp.ctype # ""

\* do-smart-ai: apiRequest reads the body of every response but a 204
apiReadsBody(resp) == resp.status # 204

AwaitsBody(resp) == IF impl = "frontend" THEN ReadsBody(resp) ELSE apiReadsBody(resp)

\* faulty variant: logout lets the failure of the revoke request through
LogoutResultUncaught(res) == IF res.type = "return" THEN Returned(Null) ELSE res

\* logout: try { await request(...) } catch (error) { console.warn(...) }
LogoutResult(res) == Returned(Null)

\* login / register: the AuthSession built from the response (frontend);
\* do-smart-ai's login and register resolve to undefined
LoginSession(data, user) ==
    IF impl = "frontend"
    THEN Some([accessToken |-> data.access, refreshToken |-> data.refresh,
               user |-> user])
    ELSE Null

\* getCurrentUser: the payload handed to normalizeUser; data is the body of
\* GET /auth/me/ (do-smart-ai hands over the body itself)
MeUser(data) ==
    IF impl = "frontend"
    THEN [id |-> data.id, email |-> data.email,
          name |-> Coalesce(data.name,
                            IF data.profile = Null THEN Undef
                            ELSE data.profile[1].name)]
    ELSE [id |-> data.id, email |-> data.email, name |-> data.name]

\* faulty variant: getCurrentUser gives every failure back as null
CatchesAsNullAlways(res) == res.type # "return"

\* getCurrentUser: if (error instanceof ApiError && error.status === 401)
CatchesAsNull(res) == res.type = "ApiError" /\ res.status = 401

\* deleteTask: await request<void>(...) and nothing after it
DeleteTaskResult(res) == IF res.type = "return" THEN Returned(Null) ELSE res

getSession(state) ==
    IF state = Null THEN Null
    ELSE Some([accessToken |-> state[1].tokens.access,
               refreshToken |-> state[1].tokens.refresh,
               user |-> state[1].user])

----------------------------------------------------------------------------
(* Calls in flight *)

Impls == {"frontend", "do-smart-ai"}

Ops == {"request", "login", "register", "logout", "getCurrentUser", "deleteTask"}

IdleCall ==
    [op |-> "idle", pc |-> "idle",
     path |-> "", method |-> "", body |-> <<>>, skipAuth |-> FALSE,
     lstate |-> Null,       \* logout: const state = authStore.getState()
     state |-> Null,        \* request: const state = authStore.getState()
     auth |-> "",           \* the Authorization header of mergedHeaders
     rcalled |-> FALSE,     \* log: request called refreshAccessToken
     rstate |-> Null,       \* refreshAccessToken: const state = authStore.getState()
     newAccess |-> "",      \* request: const newAccess
     sent |-> <<>>,         \* log: requests issued by execute()
     resps |-> <<>>,        \* log: responses execute() resolved to
     posted |-> <<>>,       \* log: refresh tokens posted to the refresh endpoint
     rresps |-> <<>>,       \* log: outcomes of the refresh fetch
     reqOps |-> <<>>,       \* log: store writes made by request/refreshAccessToken
     afterRefresh |-> <<>>, \* log: <<getState()>> right after refreshAccessToken wrote
     reqResult |-> NoResult,\* how request ended
     reqAtEnd |-> Null,     \* authStore.getState() when request ended
     result |-> NoResult,   \* how the call ended (a returned value is in session)
     session |-> Null,      \* login/register: the AuthSession returned
     user |-> Null,         \* getCurrentUser: the User returned (none: null)
     told |-> <<>>,         \* log: the listener invocations the call has caused
     wiped |-> <<>>,        \* log: <<getState()>> right before request cleared on 401
     given |-> <<>>,        \* log: the arguments AuthProvider's login / register got
     atEnd |-> Null,        \* authStore.getState() when the call ended
     sessionAtEnd |-> Null, \* getSession() when the call ended
     startsAtEnd |-> 0]     \* log: the calls started by the time the call ended

Wire(call) ==
    [path |-> call.path, method |-> call.method, body |-> call.body, auth |-> call.auth]

\* execute(): issue the request with the current headers
execute(call) == [call EXCEPT !.sent = Append(@, Wire(call)), !.pc = "fetch"]

\* request up to its first await
BeginRequest(call, state, path, method, body, skipAuth) ==
    execute([call EXCEPT !.path = path, !.method = method, !.body = body,
                         !.skipAuth = skipAuth, !.state = state,
                         !.auth = AuthorizationHeader(skipAuth, state)])

\* The end of request with outcome res, and the rest of the function that
\* awaited it (login, register, logout, getCurrentUser, deleteTask).  sto is
\* the storage text at that point.
Complete(c, call, sto, res) ==
    LET clears == res.type = "ApiError" /\ ClearsOnError(res.status, call.skipAuth)
        sto1 == IF clears THEN clear(isBrowser, sto) ELSE sto
        call1 == IF clears
                 THEN [call EXCEPT !.reqOps = Append(@, "clear"),
                                   !.told = @ \o notify(listeners, Null),
                                   !.wiped = Some(getState(isBrowser, sto))]
                 ELSE call
        isLogin == call.op \in {"login", "register"} /\ res.type = "return"
        user == NormalizedUser(res.data[1].user[1])
        newState == [tokens |-> [access |-> res.data[1].access,
                                 refresh |-> res.data[1].refresh],
                     user |-> user]
        isMe == call.op = "getCurrentUser" /\ res.type = "return"
        normalized == NormalizedUser(MeUser(res.data[1].me[1]))
        meFailed == call.op = "getCurrentUser" /\ CatchesAsNull(res)
        sto2 == IF isLogin THEN setState(isBrowser, sto1, newState)
                ELSE IF call.op = "logout" THEN clear(isBrowser, sto1)
                ELSE IF isMe THEN updateUser(isBrowser, sto1, normalized)
                ELSE IF meFailed THEN clear(isBrowser, sto1)
                ELSE sto1
        told2 == IF isLogin THEN notify(listeners, Some(newState))
                 ELSE IF call.op = "logout" THEN notify(listeners, Null)
                 ELSE IF isMe
                 THEN LET next == updateUserNext(isBrowser, sto1, normalized) IN
                      IF next = Null THEN <<>> ELSE notify(listeners, next)
                 ELSE IF meFailed THEN notify(listeners, Null)
                 ELSE <<>>
        res2 == IF call.op = "logout" THEN LogoutResult(res)
                ELSE IF isLogin \/ isMe \/ meFailed THEN Returned(Null)
                ELSE IF call.op = "deleteTask" THEN DeleteTaskResult(res)
                ELSE res
        sess == IF isLogin THEN LoginSession(res.data[1], user) ELSE Null
        ended == [call1 EXCEPT !.pc = "done", !.result = res2,
                                      !.reqResult = IF call.sent = <<>> THEN NoResult
                                                    ELSE res,
                                      !.reqAtEnd = getState(isBrowser, sto1),
                                      !.session = sess,
                                      !.user = IF isMe THEN Some(normalized) ELSE Null,
                                      !.told = @ \o told2,
                                      !.atEnd = getState(isBrowser, sto2),
                                      !.sessionAtEnd =
                                          getSession(getState(isBrowser, sto2)),
                               !.startsAtEnd = started]
    IN  /\ storage' = sto2
        /\ calls' = [calls EXCEPT ![c] = IF keep THEN ended ELSE IdleCall]
        /\ last' = ended

\* request after the refresh decision: read the body, or end at once
Settle(c, call, sto) ==
    LET resp == call.resps[Len(call.resps)] IN
    IF AwaitsBody(resp)
    THEN /\ storage' = sto
         /\ calls' = [calls EXCEPT ![c] = [call EXCEPT !.pc = "body"]]
         /\ last' = IdleCall
    ELSE Complete(c, call, sto, FinalOutcome(resp))

LoginBody(email, password) == <<<<"email", email>>, <<"password", password>>>>
RegisterBody(email, password, name) ==
    <<<<"email", email>>, <<"password", password>>, <<"name", name>>>>
LogoutBody(refresh) == <<<<"refresh", refresh>>>>

Emails == {"a@b.com"}
Passwords == {"pw"}
Names == {"Al"}

----------------------------------------------------------------------------
(* AuthProvider: src/frontend/src/hooks/useAuth.tsx *)

\* the listener onAuthStateChange subscribes for AuthProvider's callback
AuthListener == "L1"

\* useState(unauthenticatedState), useState(null); the effect has not run
NoProvider ==
    [phase |-> "unmounted",     \* "mounted" while `mounted` of the effect is true
     isAuthenticated |-> FALSE, user |-> Null, loading |-> TRUE,
     session |-> Null,
     pending |-> 0]             \* the slot of the effect's getCurrentUser() (0: none)

\* setSignedIn(user)
setSignedIn(p, user) ==
    IF p.phase # "mounted" THEN p
    ELSE [p EXCEPT !.isAuthenticated = TRUE, !.user = Some(user), !.loading = FALSE]

\* setSignedOut()
setSignedOut(p) ==
    IF p.phase # "mounted" THEN p
    ELSE [p EXCEPT !.isAuthenticated = FALSE, !.user = Null, !.loading = FALSE]

\* the callback handed to authApi.onAuthStateChange, called with the
\* AuthSession of the state the store notified
onAuthStateChange(p, state) ==
    LET nextSession == getSession(state) IN
    IF p.phase # "mounted" THEN p
    ELSE IF nextSession # Null
    THEN setSignedIn([p EXCEPT !.session = nextSession], nextSession[1].user)
    ELSE setSignedOut([p EXCEPT !.session = nextSession])

\* the listener invocations of one store call, as AuthProvider sees them
RECURSIVE Hears(_, _)
Hears(p, invocations) ==
    IF invocations = <<>> THEN p
    ELSE Hears(IF Head(invocations).listener = AuthListener
               THEN onAuthStateChange(p, Head(invocations).state)
               ELSE p,
               Tail(invocations))

\* getCurrentUser().then((user) => ...).catch(() => setSignedOut())
SettledCurrentUser(p, ended) ==
    IF ended.result.type = "return" /\ ended.user # Null
    THEN setSignedIn(p, ended.user[1])
    ELSE setSignedOut(p)

\* AuthProvider after a step of the call in slot c: the listener has been
\* called for every store write of the step, and the handlers of the
\* effect's getCurrentUser() have run if that call ended
AfterCall(c) ==
    LET ended == last'.pc = "done"
        after == IF ended THEN last' ELSE calls'[c]
        heard == Hears(provider,
                       SubSeq(after.told, Len(calls[c].told) + 1, Len(after.told)))
    IN  IF ended /\ provider.pending = c
        THEN [SettledCurrentUser(heard, last') EXCEPT !.pending = 0]
        ELSE heard

\* a string passed as an argument, and an object literal
JSString(s) == [t |-> "string", s |-> s]
JSObject(fields) == [t |-> "object", o |-> fields]

\* value[name]: a string has no property of these names
Property(value, name) ==
    IF value.t = "object" /\ name \in DOMAIN value.o THEN value.o[name] ELSE Undef

\* JSON.stringify of an object: a property whose value is undefined is left out
JSONstringifyObject(properties) == SelectSeq(properties, LAMBDA q : q[2] # Undef)

\* a call can start: the lowest idle slot takes it
Free(c) ==
    /\ calls[c].pc = "idle"
    /\ \A d \in Slots : d < c => calls[d].pc # "idle"
    /\ started < MaxStarts

\* request(path, options) called directly (tasks, profile, settings, ai)
StartRequest(c, skipAuth) ==
    /\ UNCHANGED lvars
    /\ Free(c)
    /\ calls' = [calls EXCEPT ![c] =
                    BeginRequest([IdleCall EXCEPT !.op = "request"],
                                 getState(isBrowser, storage),
                                 "/tasks/", "GET", <<>>, skipAuth)]
    /\ started' = started + 1
    /\ last' = IdleCall
    /\ UNCHANGED <<impl, norm, keep, writer, isBrowser, storage, written, got>>
    /\ provider' = AfterCall(c)

\* djangoApi.auth.login
StartLogin(c, email, password) ==
    /\ UNCHANGED lvars
    /\ Free(c)
    /\ calls' = [calls EXCEPT ![c] =
                    BeginRequest([IdleCall EXCEPT !.op = "login"],
                                 getState(isBrowser, storage),
                                 "/auth/login/", "POST",
                                 LoginBody(email, password), TRUE)]
    /\ started' = started + 1
    /\ last' = IdleCall
    /\ UNCHANGED <<impl, norm, keep, writer, isBrowser, storage, written, got>>
    /\ provider' = AfterCall(c)

\* djangoApi.auth.register
StartRegister(c, email, password, name) ==
    /\ UNCHANGED lvars
    /\ Free(c)
    /\ calls' = [calls EXCEPT ![c] =
                    BeginRequest([IdleCall EXCEPT !.op = "register"],
                                 getState(isBrowser, storage),
                                 "/auth/register/", "POST",
                                 RegisterBody(email, password, name), TRUE)]
    /\ started' = started + 1
    /\ last' = IdleCall
    /\ UNCHANGED <<impl, norm, keep, writer, isBrowser, storage, written, got>>
    /\ provider' = AfterCall(c)

\* djangoApi.auth.logout
StartLogout(c) ==
    /\ UNCHANGED lvars
    /\ Free(c)
    /\ started' = started + 1
    /\ LET state == getState(isBrowser, storage)
           call == [IdleCall EXCEPT !.op = "logout", !.lstate = state]
       IN  IF HasRefresh(state)
           THEN /\ calls' = [calls EXCEPT ![c] =
                                BeginRequest(call, getState(isBrowser, storage),
                                             "/auth/logout/", "POST",
                                             LogoutBody(state[1].tokens.refresh), FALSE)]
                /\ storage' = storage
                /\ last' = IdleCall
           ELSE Complete(c, call, storage, Returned(Null))
    /\ UNCHANGED <<impl, norm, keep, writer, isBrowser, written, got>>
    /\ provider' = AfterCall(c)

\* djangoApi.auth.getCurrentUser
StartGetCurrentUser(c) ==
    /\ UNCHANGED lvars
    /\ Free(c)
    /\ calls' = [calls EXCEPT ![c] =
                    BeginRequest([IdleCall EXCEPT !.op = "getCurrentUser"],
                                 getState(isBrowser, storage),
                                 "/auth/me/", "GET", <<>>, FALSE)]
    /\ started' = started + 1
    /\ last' = IdleCall
    /\ UNCHANGED <<impl, norm, keep, writer, isBrowser, storage, written, got>>
    /\ provider' = AfterCall(c)

\* djangoApi.tasks.deleteTask(id)
StartDeleteTask(c) ==
    /\ UNCHANGED lvars
    /\ Free(c)
    /\ calls' = [calls EXCEPT ![c] =
                    BeginRequest([IdleCall EXCEPT !.op = "deleteTask"],
                                 getState(isBrowser, storage),
                                 "/tasks/1/", "DELETE", <<>>, FALSE)]
    /\ started' = started + 1
    /\ last' = IdleCall
    /\ UNCHANGED <<impl, norm, keep, writer, isBrowser, storage, written, got>>
    /\ provider' = AfterCall(c)

\* faulty variant: a rejected refresh leaves the session in place
RefreshRejectedKeeps(browser, raw) == raw

\* refreshAccessToken: if (!response.ok) { authStore.clear(); return null; }
RefreshRejected(browser, raw) == clear(browser, raw)

\* refreshAccessToken: catch (error) { ...; authStore.clear(); return null; }
RefreshCaught(browser, raw) == clear(browser, raw)

\* faulty variant: the refresh writes only if the store still holds the
\* session it read when it started
RefreshWriteUnlessChanged(browser, raw, state, next) ==
    IF getState(browser, raw) # Some(state) THEN raw
    ELSE setState(browser, raw, next)

\* faulty variant: the refresh writes only if a session is still stored
RefreshWriteIfStored(browser, raw, state, next) ==
    IF getState(browser, raw) = Null THEN raw
    ELSE setState(browser, raw, next)

\* authStore.setState(nextState) of refreshAccessToken, which read `state`
\* when it started: the write is made whatever the store holds by now
RefreshWrite(browser, raw, state, next) == setState(browser, raw, next)

\* faulty variant: the refresh request carries the access token
RefreshRequestBodyAccess(state) == state.tokens.access

\* body: JSON.stringify({ refresh: state.tokens.refresh })
RefreshRequestBody(state) == state.tokens.refresh

\* faulty variant: a call makes no refresh attempt while another call's is
\* in flight
BeginRefreshCoalesced(c, call) ==
    LET state == getState(isBrowser, storage)
        call1 == [call EXCEPT !.rcalled = TRUE, !.rstate = state]
    IN
    IF ~CanRefresh(state) \/ \E d \in Slots \ {c} : calls[d].pc = "refresh"
    THEN Settle(c, call1, storage)
    ELSE /\ storage' = storage
         /\ last' = IdleCall
         /\ calls' = [calls EXCEPT ![c] =
                         [call1 EXCEPT !.pc = "refresh",
                                       !.posted = Append(@, RefreshRequestBody(state[1]))]]

\* refreshAccessToken up to its fetch; request goes on when it returned null
BeginRefresh(c, call) ==
    LET state == getState(isBrowser, storage)
        call1 == [call EXCEPT !.rcalled = TRUE, !.rstate = state]
    IN
    IF ~CanRefresh(state)
    THEN Settle(c, call1, storage)
    ELSE /\ storage' = storage
         /\ last' = IdleCall
         /\ calls' = [calls EXCEPT ![c] =
                         [call1 EXCEPT !.pc = "refresh",
                                       !.posted = Append(@, RefreshRequestBody(state[1]))]]

\* let response = await execute()  resolves to resp
Receive(c, resp) ==
    /\ UNCHANGED lvars
    /\ calls[c].pc = "fetch"
    /\ resp \in Responses(calls[c].path)
    /\ LET call == [calls[c] EXCEPT !.resps = Append(@, resp)] IN
       IF FirstAttempt(call) /\ NeedsRefresh(resp.status, call.skipAuth, call.state)
       THEN BeginRefresh(c, call)
       ELSE Settle(c, call, storage)
    /\ UNCHANGED <<impl, norm, keep, writer, isBrowser, started, written, got>>
    /\ provider' = AfterCall(c)

\* faulty variant: the rejection is wrapped in the typed error
ReceiveFailsWrapped(c) ==
    /\ UNCHANGED lvars
    /\ calls[c].pc = "fetch"
    /\ Complete(c, calls[c], storage, ApiError("Failed to fetch", 0, Null))
    /\ UNCHANGED <<impl, norm, keep, writer, isBrowser, started, written, got>>
    /\ provider' = AfterCall(c)

\* await execute() rejects: network failure
ReceiveFails(c) ==
    /\ UNCHANGED lvars
    /\ calls[c].pc = "fetch"
    /\ Complete(c, calls[c], storage, NetworkError)
    /\ UNCHANGED <<impl, norm, keep, writer, isBrowser, started, written, got>>
    /\ provider' = AfterCall(c)

\* refreshAccessToken: the fetch of the refresh endpoint resolves to resp
RefreshReceive(c, resp) ==
    /\ UNCHANGED lvars
    /\ calls[c].pc = "refresh"
    /\ resp \in RefreshResponses
    /\ LET call == [calls[c] EXCEPT !.rresps = Append(@, resp)] IN
       IF ~Ok(resp)
       THEN Settle(c, [call EXCEPT
                           !.reqOps = Append(@, "clear"),
                           !.told = @ \o notify(listeners, Null),
                           !.afterRefresh =
                               Some(getState(isBrowser,
                                             RefreshRejected(isBrowser, storage)))],
                   RefreshRejected(isBrowser, storage))
       ELSE /\ storage' = storage
            /\ last' = IdleCall
            /\ calls' = [calls EXCEPT ![c] = [call EXCEPT !.pc = "refreshBody"]]
    /\ UNCHANGED <<impl, norm, keep, writer, isBrowser, started, written, got>>
    /\ provider' = AfterCall(c)

\* faulty variant: the rejection of the refresh fetch is not caught
RefreshFailsUncaught(c) ==
    /\ UNCHANGED lvars
    /\ calls[c].pc = "refresh"
    /\ Complete(c, [calls[c] EXCEPT !.rresps = Append(@, NoResponse)],
                storage, NetworkError)
    /\ UNCHANGED <<impl, norm, keep, writer, isBrowser, started, written, got>>
    /\ provider' = AfterCall(c)

\* refreshAccessToken: the fetch rejects; the catch block runs
RefreshFails(c) ==
    /\ UNCHANGED lvars
    /\ calls[c].pc = "refresh"
    /\ Settle(c, [calls[c] EXCEPT
                      !.rresps = Append(@, NoResponse),
                      !.reqOps = Append(@, "clear"),
                      !.told = @ \o notify(listeners, Null),
                      !.afterRefresh =
                          Some(getState(isBrowser, RefreshCaught(isBrowser, storage)))],
              RefreshCaught(isBrowser, storage))
    /\ UNCHANGED <<impl, norm, keep, writer, isBrowser, started, written, got>>
    /\ provider' = AfterCall(c)

\* refreshAccessToken: await response.json() settles; request retries
RefreshBody(c) ==
    /\ UNCHANGED lvars
    /\ calls[c].pc = "refreshBody"
    /\ LET call == calls[c]
           resp == call.rresps[Len(call.rresps)]
           access == resp.body.access
           next == RefreshedState(call.rstate[1], access)
       IN  IF ~resp.valid
           THEN Settle(c, [call EXCEPT
                               !.reqOps = Append(@, "clear"),
                               !.told = @ \o notify(listeners, Null),
                               !.afterRefresh =
                                   Some(getState(isBrowser,
                                                 RefreshCaught(isBrowser, storage)))],
                       RefreshCaught(isBrowser, storage))
           ELSE IF Truthy(access)
           THEN /\ storage' = RefreshWrite(isBrowser, storage, call.rstate[1], next)
                /\ last' = IdleCall
                /\ calls' = [calls EXCEPT ![c] =
                                execute([call EXCEPT
                                    !.newAccess = access,
                                    !.auth = RetryHeader(call, access),
                                    !.reqOps = Append(@, "setState"),
                                    !.told = @ \o notify(listeners, Some(next)),
                                    !.afterRefresh =
                                        Some(getState(isBrowser,
                                                      RefreshWrite(isBrowser, storage, call.rstate[1], next)))])]
           ELSE Settle(c, [call EXCEPT
                               !.newAccess = access,
                               !.reqOps = Append(@, "setState"),
                               !.told = @ \o notify(listeners, Some(next)),
                               !.afterRefresh =
                                   Some(getState(isBrowser,
                                                 RefreshWrite(isBrowser, storage, call.rstate[1], next)))],
                       RefreshWrite(isBrowser, storage, call.rstate[1], next))
    /\ writer' = LET resp == calls[c].rresps[Len(calls[c].rresps)] IN
                 IF keep /\ resp.valid THEN c ELSE writer
    /\ UNCHANGED <<impl, norm, keep, isBrowser, started, written, got>>
    /\ provider' = AfterCall(c)

\* request: await response.json() / response.text() settles
ReadBody(c) ==
    /\ UNCHANGED lvars
    /\ calls[c].pc = "body"
    /\ Complete(c, calls[c], storage, FinalOutcome(calls[c].resps[Len(calls[c].resps)]))
    /\ UNCHANGED <<impl, norm, keep, writer, isBrowser, started, written, got>>
    /\ provider' = AfterCall(c)

----------------------------------------------------------------------------
(* The Session Store driven directly, by any caller, in any order *)

NoCall == [op |-> "none", value |-> Null, threw |-> FALSE]

Users == {normalizeUser(g.user[1]) : g \in Grants}

Sessions ==
    { [tokens |-> [access |-> a, refresh |-> r], user |-> u] :
        a \in AccessTokens, r \in RefreshTokens, u \in Users }

\* the functions handed to subscribe
Listeners == {"L1", "L2"}

NeverSubscribed == [l \in Listeners |-> "never"]

CallSetState(state) ==
    /\ storage' = setState(isBrowser, storage, state)
    /\ notified' = notify(listeners, Some(state))
    /\ written' = Some(state)
    /\ got' = [got EXCEPT !.op = "setState"]
    /\ before' = storage
    /\ arg' = Some(state)
    /\ UNCHANGED <<impl, provider, norm, keep, writer, isBrowser, calls, last, started, listeners, subs>>

CallClear ==
    /\ storage' = clear(isBrowser, storage)
    /\ notified' = notify(listeners, Null)
    /\ written' = Null
    /\ got' = [got EXCEPT !.op = "clear"]
    /\ before' = storage
    /\ arg' = Null
    /\ UNCHANGED <<impl, provider, norm, keep, writer, isBrowser, calls, last, started, listeners, subs>>

CallUpdateUser(user) ==
    /\ storage' = updateUser(isBrowser, storage, user)
    /\ notified' = LET next == updateUserNext(isBrowser, storage, user) IN
                   IF next = Null THEN <<>> ELSE notify(listeners, next)
    /\ written' = IF written = Null THEN Null
                  ELSE Some([written[1] EXCEPT !.user = user])
    /\ got' = [got EXCEPT !.op = "updateUser"]
    /\ before' = storage
    /\ arg' = Some(user)
    /\ UNCHANGED <<impl, provider, norm, keep, writer, isBrowser, calls, last, started, listeners, subs>>

CallGetState ==
    /\ got' = [op |-> "getState", value |-> getState(isBrowser, storage),
               threw |-> readStorageThrows(isBrowser, storage)]
    /\ notified' = <<>>
    /\ before' = storage
    /\ arg' = Null
    /\ UNCHANGED <<impl, provider, norm, keep, writer, isBrowser, storage, calls, last, started, written,
                   listeners, subs>>

\* authStore.subscribe(listener)
CallSubscribe(listener) ==
    /\ listeners' = add(listeners, listener)
    /\ subs' = [subs EXCEPT ![listener] = "subscribed"]
    /\ got' = [got EXCEPT !.op = "subscribe"]
    /\ notified' = <<>>
    /\ before' = storage
    /\ arg' = Null
    /\ UNCHANGED <<impl, provider, norm, keep, writer, isBrowser, storage, calls, last, started, written>>

\* unsubscribe() of a handle that subscribe(listener) returned
CallUnsubscribe(listener) ==
    /\ subs[listener] # "never"
    /\ listeners' = delete(listeners, listener)
    /\ subs' = [subs EXCEPT ![listener] = "unsubscribed"]
    /\ got' = [got EXCEPT !.op = "unsubscribe"]
    /\ notified' = <<>>
    /\ before' = storage
    /\ arg' = Null
    /\ UNCHANGED <<impl, provider, norm, keep, writer, isBrowser, storage, calls, last, started, written>>

\* the store before any session was ever set: localStorage holds no item
\* under the key, or a text that is no session
InitStore ==
    /\ impl = "frontend"
    /\ keep = FALSE
    /\ writer = 0
    /\ isBrowser \in BOOLEAN
    /\ storage \in {<<>>} \cup IF isBrowser THEN CorruptTexts ELSE {}
    /\ calls = [c \in Slots |-> IdleCall]
    /\ last = IdleCall
    /\ started = 0
    /\ written = Null
    /\ got = NoCall
    /\ listeners = <<>>
    /\ subs = NeverSubscribed
    /\ notified = <<>>
    /\ before = <<>>
    /\ arg = Null
    /\ provider = NoProvider
    /\ norm = NoNorm

NextStore ==
    \/ \E state \in Sessions : CallSetState(state)
    \/ CallClear
    \/ \E user \in Users : CallUpdateUser(user)
    \/ CallGetState
    \/ \E listener \in Listeners : CallSubscribe(listener)
    \/ \E listener \in Listeners : CallUnsubscribe(listener)

SpecStore == InitStore /\ [][NextStore]_vars

----------------------------------------------------------------------------
(* The program *)

\* what an earlier login left in localStorage: the session of the first grant
StoredStates ==
    { [tokens |-> [access |-> g.access, refresh |-> g.refresh],
       user |-> normalizeUser(g.user[1])] : g \in {h \in Grants : h.access = "A1"} }

Init ==
    /\ impl \in Impls
    /\ keep = FALSE
    /\ writer = 0
    /\ isBrowser \in BOOLEAN
    /\ storage \in {<<>>} \cup
                   IF isBrowser THEN {JSONstringify(s) : s \in StoredStates} ELSE {}
    /\ calls = [c \in Slots |-> IdleCall]
    /\ last = IdleCall
    /\ started = 0
    /\ written = Null
    /\ got = NoCall
    /\ listeners = <<>>
    /\ subs = NeverSubscribed
    /\ notified = <<>>
    /\ before = <<>>
    /\ arg = Null
    /\ provider = NoProvider
    /\ norm = NoNorm

Next ==
    \/ \E c \in Slots, skipAuth \in BOOLEAN : StartRequest(c, skipAuth)
    \/ \E c \in Slots, e \in Emails, p \in Passwords : StartLogin(c, e, p)
    \/ \E c \in Slots, e \in Emails, p \in Passwords, n \in Names :
            StartRegister(c, e, p, n)
    \/ \E c \in Slots : StartLogout(c)
    \/ \E c \in Slots, resp \in AllResponses : Receive(c, resp)
    \/ \E c \in Slots : ReceiveFails(c)
    \/ \E c \in Slots, resp \in RefreshResponses : RefreshReceive(c, resp)
    \/ \E c \in Slots : RefreshFails(c)
    \/ \E c \in Slots : RefreshBody(c)
    \/ \E c \in Slots : ReadBody(c)

Spec == Init /\ [][Next]_vars

\* the same program with the records of ended calls kept: two calls, each
\* in its slot to the end, for the properties that compare two calls
InitKept ==
    /\ impl \in Impls
    /\ keep = TRUE
    /\ writer = 0
    /\ isBrowser \in BOOLEAN
    /\ storage \in {<<>>} \cup
                   IF isBrowser THEN {JSONstringify(s) : s \in StoredStates} ELSE {}
    /\ calls = [c \in Slots |-> IdleCall]
    /\ last = IdleCall
    /\ started = 0
    /\ written = Null
    /\ got = NoCall
    /\ listeners = <<>>
    /\ subs = NeverSubscribed
    /\ notified = <<>>
    /\ before = <<>>
    /\ arg = Null
    /\ provider = NoProvider
    /\ norm = NoNorm

SpecKept == InitKept /\ [][Next]_vars

\* The client with its calls made one after another: a call starts when no
\* other is in flight.  getCurrentUser and deleteTask are among the calls,
\* and the store has subscribers.
Quiet == \A c \in Slots : calls[c].pc = "idle"

\* the listeners subscribed before the first call
Subscribed == {<<>>, <<"L1">>, <<"L1", "L2">>}

InitSeq ==
    /\ impl \in Impls
    /\ keep = FALSE
    /\ writer = 0
    /\ isBrowser \in BOOLEAN
    /\ storage \in {<<>>} \cup
                   IF isBrowser THEN {JSONstringify(s) : s \in StoredStates} ELSE {}
    /\ calls = [c \in Slots |-> IdleCall]
    /\ last = IdleCall
    /\ started = 0
    /\ written = Null
    /\ got = NoCall
    /\ listeners \in Subscribed
    /\ subs = [l \in Listeners |->
                   IF l \in Elements(listeners) THEN "subscribed" ELSE "never"]
    /\ notified = <<>>
    /\ before = <<>>
    /\ arg = Null
    /\ provider = NoProvider
    /\ norm = NoNorm

NextSeq ==
    \/ Quiet /\ \E c \in Slots, skipAuth \in BOOLEAN : StartRequest(c, skipAuth)
    \/ Quiet /\ \E c \in Slots, e \in Emails, p \in Passwords : StartLogin(c, e, p)
    \/ Quiet /\ \E c \in Slots, e \in Emails, p \in Passwords, n \in Names :
                    StartRegister(c, e, p, n)
    \/ Quiet /\ \E c \in Slots : StartLogout(c)
    \/ Quiet /\ \E c \in Slots : StartGetCurrentUser(c)
    \/ Quiet /\ \E c \in Slots : StartDeleteTask(c)
    \/ \E c \in Slots, resp \in AllSeqResponses : Receive(c, resp)
    \/ \E c \in Slots : ReceiveFails(c)
    \/ \E c \in Slots, resp \in RefreshResponses : RefreshReceive(c, resp)
    \/ \E c \in Slots : RefreshFails(c)
    \/ \E c \in Slots : RefreshBody(c)
    \/ \E c \in Slots : ReadBody(c)

SpecSeq == InitSeq /\ [][NextSeq]_vars

\* The auth calls of the client in flight together, against a backend that
\* answers for the credentials it is shown: GET /auth/me/ names the user the
\* bearer token was issued to, and the refresh endpoint issues an access
\* token of the user whose refresh token was posted.

\* the user a token was issued to, by the grant that carried it
TokenOwner(token) ==
    LET g == CHOOSE h \in Grants : token \in {h.access, h.refresh}
    IN  String(g.user[1].id)

\* the access token of an Authorization header, if it carries one
BearerToken(auth) ==
    IF \E a \in AccessTokens : auth = Bearer(a)
    THEN Some(CHOOSE a \in AccessTokens : auth = Bearer(a))
    ELSE Null

\* GET /auth/me/ answers 200 only with the user of the bearer token it got
AnswersForCredentials(call, resp) ==
    (call.path = "/auth/me/" /\ resp.status = 200 /\ resp.valid /\ resp.body.me # Null)
    => /\ BearerToken(call.auth) # Null
       /\ String(resp.body.me[1].id) = TokenOwner(BearerToken(call.auth)[1])

\* the refresh endpoint issues an access token of the refresh token's user
IssuesForRefreshToken(call, resp) ==
    (call.posted # <<>> /\ resp.status = 200 /\ resp.valid
     /\ resp.body.access \in AccessTokens)
    => TokenOwner(resp.body.access) = TokenOwner(call.posted[Len(call.posted)])

NextAuth ==
    \/ \E c \in Slots, e \in Emails, p \in Passwords : StartLogin(c, e, p)
    \/ \E c \in Slots, e \in Emails, p \in Passwords, n \in Names :
            StartRegister(c, e, p, n)
    \/ \E c \in Slots : StartLogout(c)
    \/ \E c \in Slots : StartGetCurrentUser(c)
    \/ \E c \in Slots, resp \in AllSeqResponses :
            AnswersForCredentials(calls[c], resp) /\ Receive(c, resp)
    \/ \E c \in Slots : ReceiveFails(c)
    \/ \E c \in Slots, resp \in RefreshResponses :
            IssuesForRefreshToken(calls[c], resp) /\ RefreshReceive(c, resp)
    \/ \E c \in Slots : RefreshFails(c)
    \/ \E c \in Slots : RefreshBody(c)
    \/ \E c \in Slots : ReadBody(c)

SpecAuth == Init /\ [][NextAuth]_vars

----------------------------------------------------------------------------
(* The frontend application: AuthProvider over djangoApi.auth *)

\* useEffect(() => { ... }, []): the effect of AuthProvider, run once on mount
AuthProviderMount(c) ==
    /\ provider.phase = "unmounted"
    /\ LET existingSession == getSession(getState(isBrowser, storage))
           mounted == [provider EXCEPT !.phase = "mounted"]
       IN  IF existingSession # Null
           THEN /\ Free(c)
                /\ calls' = [calls EXCEPT ![c] =
                                BeginRequest([IdleCall EXCEPT !.op = "getCurrentUser"],
                                             getState(isBrowser, storage),
                                             "/auth/me/", "GET", <<>>, FALSE)]
                /\ started' = started + 1
                /\ provider' =
                       [setSignedIn([mounted EXCEPT !.session = existingSession],
                                    existingSession[1].user)
                            EXCEPT !.pending = c]
           ELSE /\ c = 1
                /\ UNCHANGED <<calls, started>>
                /\ provider' = setSignedOut(mounted)
    /\ listeners' = add(listeners, AuthListener)
    /\ subs' = [subs EXCEPT ![AuthListener] = "subscribed"]
    /\ last' = IdleCall
    /\ UNCHANGED <<impl, norm, keep, writer, isBrowser, storage, written, got,
                   notified, before, arg>>

\* the effect's cleanup: mounted = false; subscription.unsubscribe()
AuthProviderUnmount ==
    /\ provider.phase = "mounted"
    /\ provider' = [provider EXCEPT !.phase = "unmounted after"]
    /\ listeners' = delete(listeners, AuthListener)
    /\ subs' = [subs EXCEPT ![AuthListener] = "unsubscribed"]
    /\ last' = IdleCall
    /\ UNCHANGED <<impl, norm, keep, writer, isBrowser, storage, calls, started,
                   written, got, notified, before, arg>>

\* AuthProvider's login(email, password): await authApi.login(email, password),
\* where authApi is djangoApi.auth, whose login({ email, password }) takes its
\* fields from the first argument
AuthProviderLogin(c, email, password) ==
    /\ UNCHANGED lvars
    /\ provider.phase = "mounted"
    /\ Free(c)
    /\ LET arguments == <<JSString(email), JSString(password)>>
           options == arguments[1]
       IN  calls' = [calls EXCEPT ![c] =
                        BeginRequest([IdleCall EXCEPT !.op = "login",
                                                      !.given = <<email, password>>],
                                     getState(isBrowser, storage),
                                     "/auth/login/", "POST",
                                     JSONstringifyObject(
                                         LoginBody(Property(options, "email"),
                                                   Property(options, "password"))),
                                     TRUE)]
    /\ started' = started + 1
    /\ last' = IdleCall
    /\ UNCHANGED <<impl, norm, keep, writer, isBrowser, storage, written, got, provider>>

\* AuthProvider's register(email, password, name)
AuthProviderRegister(c, email, password, name) ==
    /\ UNCHANGED lvars
    /\ provider.phase = "mounted"
    /\ Free(c)
    /\ LET arguments == <<JSString(email), JSString(password), JSString(name)>>
           options == arguments[1]
       IN  calls' = [calls EXCEPT ![c] =
                        BeginRequest([IdleCall EXCEPT !.op = "register",
                                                      !.given = <<email, password, name>>],
                                     getState(isBrowser, storage),
                                     "/auth/register/", "POST",
                                     JSONstringifyObject(
                                         RegisterBody(Property(options, "email"),
                                                      Property(options, "password"),
                                                      Property(options, "name"))),
                                     TRUE)]
    /\ started' = started + 1
    /\ last' = IdleCall
    /\ UNCHANGED <<impl, norm, keep, writer, isBrowser, storage, written, got, provider>>

\* AuthProvider's logout(): await authApi.logout()
AuthProviderLogout(c) ==
    /\ provider.phase = "mounted"
    /\ StartLogout(c)

\* the page loads in a browser; localStorage holds what an earlier visit left
InitApp ==
    /\ impl = "frontend"
    /\ keep = FALSE
    /\ writer = 0
    /\ isBrowser = TRUE
    /\ storage \in {<<>>} \cup {JSONstringify(s) : s \in StoredStates}
    /\ calls = [c \in Slots |-> IdleCall]
    /\ last = IdleCall
    /\ started = 0
    /\ written = Null
    /\ got = NoCall
    /\ listeners = <<>>
    /\ subs = NeverSubscribed
    /\ notified = <<>>
    /\ before = <<>>
    /\ arg = Null
    /\ norm = NoNorm
    /\ provider = NoProvider

NextApp ==
    \/ \E c \in Slots : AuthProviderMount(c)
    \/ AuthProviderUnmount
    \/ \E c \in Slots, e \in Emails, p \in Passwords : AuthProviderLogin(c, e, p)
    \/ \E c \in Slots, e \in Emails, p \in Passwords, n \in Names :
            AuthProviderRegister(c, e, p, n)
    \/ \E c \in Slots : AuthProviderLogout(c)
    \/ \E c \in Slots, resp \in AllSeqResponses : Receive(c, resp)
    \/ \E c \in Slots : ReceiveFails(c)
    \/ \E c \in Slots, resp \in RefreshResponses : RefreshReceive(c, resp)
    \/ \E c \in Slots : RefreshFails(c)
    \/ \E c \in Slots : RefreshBody(c)
    \/ \E c \in Slots : ReadBody(c)

SpecApp == InitApp /\ [][NextApp]_vars

----------------------------------------------------------------------------
(* The normalize functions: a payload the backend can send is at hand, and  *)
(* the function for it is applied to it                                     *)

WireIds == {Num(0), Num(7), Num(42), Str("u2"), Str("0")}

OptionalIds == WireIds \cup {NoId, NullId}

RawUsers ==
    [id : WireIds, email : {"a@b.com", Undef}, name : {"Al", Undef}]

RawTasks ==
    [id : {Num(0), Num(42), Str("t1")},
     title : {"Buy milk", Undef},
     description : {"two litres", Undef, JNull},
     dueDate : {"2025-01-31", Undef, JNull},
     priority : {"high", Undef},
     status : {"done", Undef},
     createdAt : {"2025-01-01T10:00:00Z", Undef},
     updatedAt : {"2025-01-01T10:00:00Z"},
     userId : OptionalIds]

RawHistoryItems ==
    [id : {Num(0), Num(42), Str("h1")},
     title : {"Plan", Undef},
     query : {"What next?"},
     response : {"Do it."},
     createdAt : {"2025-01-01T10:00:00Z", Undef},
     created_at : {"2025-01-02T10:00:00Z", Undef},
     userId : {Num(0), Str("u2"), NoId, NullId},
     user : {Num(7), NoId, NullId}]

CallNormalizeUser ==
    /\ norm.fn = "none" /\ norm.kind = "user"
    /\ norm' = [fn |-> "normalizeUser", payload |-> norm.payload,
                result |-> NormalizedUser(norm.payload)]
    /\ UNCHANGED <<impl, provider, keep, writer, isBrowser, storage, calls, last, started,
                   written, got, listeners, subs, notified, before, arg>>

\* normalizeTask of the module the behaviour runs
NormalizedTask(payload) ==
    IF impl = "frontend" THEN normalizeTask(payload) ELSE apiNormalizeTask(payload)

CallNormalizeTask ==
    /\ norm.fn = "none" /\ norm.kind = "task"
    /\ norm' = [fn |-> "normalizeTask", payload |-> norm.payload,
                result |-> NormalizedTask(norm.payload)]
    /\ UNCHANGED <<impl, provider, keep, writer, isBrowser, storage, calls, last, started,
                   written, got, listeners, subs, notified, before, arg>>

\* normalizeHistoryItem: the frontend module has it, do-smart-ai has not
CallNormalizeHistoryItem ==
    /\ impl = "frontend"
    /\ norm.fn = "none" /\ norm.kind = "history"
    /\ norm' = [fn |-> "normalizeHistoryItem", payload |-> norm.payload,
                result |-> normalizeHistoryItem(norm.payload)]
    /\ UNCHANGED <<impl, provider, keep, writer, isBrowser, storage, calls, last, started,
                   written, got, listeners, subs, notified, before, arg>>

InitNorm ==
    /\ impl \in Impls
    /\ keep = FALSE
    /\ writer = 0
    /\ isBrowser = TRUE
    /\ storage = <<>>
    /\ calls = [c \in Slots |-> IdleCall]
    /\ last = IdleCall
    /\ started = 0
    /\ written = Null
    /\ got = NoCall
    /\ listeners = <<>>
    /\ subs = NeverSubscribed
    /\ notified = <<>>
    /\ before = <<>>
    /\ arg = Null
    /\ provider = NoProvider
    /\ norm \in {Payload("user", p) : p \in RawUsers} \cup
                {Payload("task", p) : p \in RawTasks} \cup
                {Payload("history", p) : p \in RawHistoryItems}

NextNorm ==
    \/ CallNormalizeUser
    \/ CallNormalizeTask
    \/ CallNormalizeHistoryItem

SpecNorm == InitNorm /\ [][NextNorm]_vars

----------------------------------------------------------------------------
(* One authenticated call alone, in each of the two client modules: with no *)
(* other call in flight, what request does is a function of the stored      *)
(* text and of what the fetches resolve to: the first response, the answer  *)
(* of the refresh endpoint and the retried response (NoResponse: the fetch  *)
(* rejected).                                                                *)

\* refreshAccessToken of module i run to its end: the token it returns and
\* the storage text it leaves
refreshAccessTokenAlone(i, raw, refresh) ==
    LET state == getState(isBrowser, raw)
        proceeds == IF i = "frontend" THEN HasRefresh(state) ELSE apiHasState(state)
    IN  IF ~proceeds THEN [access |-> Undef, storage |-> raw]
        ELSE IF refresh = NoResponse
        THEN [access |-> Undef, storage |-> RefreshCaught(isBrowser, raw)]
        ELSE IF ~Ok(refresh)
        THEN [access |-> Undef, storage |-> RefreshRejected(isBrowser, raw)]
        ELSE IF ~refresh.valid
        THEN [access |-> Undef, storage |-> RefreshCaught(isBrowser, raw)]
        ELSE [access |-> refresh.body.access,
              storage |-> RefreshWrite(isBrowser, raw, state[1],
                                       RefreshedState(state[1], refresh.body.access))]

\* request (i = "frontend") or apiRequest (i = "do-smart-ai") with skipAuth
\* false, run to its end: how it ends and the storage text it leaves
requestAlone(i, raw, first, refresh, retry) ==
    LET state == getState(isBrowser, raw)
        Ends(resp, sto) ==
            IF resp = NoResponse THEN [result |-> NetworkError, storage |-> sto]
            ELSE LET res == IF i = "frontend" THEN Outcome(resp) ELSE apiOutcome(resp)
                     clears == /\ res.type = "ApiError"
                               /\ IF i = "frontend" THEN ClearsSession(res.status, FALSE)
                                  ELSE apiClearsSession(res.status, FALSE)
                 IN  [result |-> res,
                      storage |-> IF clears THEN clear(isBrowser, sto) ELSE sto]
    IN  IF first # NoResponse /\ NeedsRefresh(first.status, FALSE, state)
        THEN LET refreshed == refreshAccessTokenAlone(i, raw, refresh) IN
             IF Truthy(refreshed.access) THEN Ends(retry, refreshed.storage)
             ELSE Ends(first, refreshed.storage)
        ELSE Ends(first, raw)

\* a success whose response declares no content type
UntypedSuccess == Response(200, "", TRUE, TextBody("ok"))

\* what the fetches of one call can resolve to
Scripts ==
    [first : TaskResponses \cup {UntypedSuccess, NoResponse},
     refresh : RefreshResponses \cup {NoResponse},
     retry : TaskResponses \cup {UntypedSuccess, NoResponse}]

\* the same call made through each module, from the same storage text and
\* with the same answers
CallRequestOfBoth ==
    /\ norm.fn = "none" /\ norm.kind = "script"
    /\ norm' = [fn |-> "request", payload |-> norm.payload,
                result |->
                    [frontend |-> requestAlone("frontend", storage, norm.payload.first,
                                               norm.payload.refresh, norm.payload.retry),
                     doSmartAi |-> requestAlone("do-smart-ai", storage,
                                                norm.payload.first, norm.payload.refresh,
                                                norm.payload.retry)]]
    /\ UNCHANGED <<impl, provider, keep, writer, isBrowser, storage, calls, last, started,
                   written, got, listeners, subs, notified, before, arg>>

InitTwin ==
    /\ impl = "frontend"
    /\ keep = FALSE
    /\ writer = 0
    /\ isBrowser = TRUE
    /\ storage \in {<<>>} \cup {JSONstringify(s) : s \in StoredStates}
    /\ calls = [c \in Slots |-> IdleCall]
    /\ last = IdleCall
    /\ started = 0
    /\ written = Null
    /\ got = NoCall
    /\ listeners = <<>>
    /\ subs = NeverSubscribed
    /\ notified = <<>>
    /\ before = <<>>
    /\ arg = Null
    /\ provider = NoProvider
    /\ norm \in {Payload("script", s) : s \in Scripts}

NextTwin == CallRequestOfBoth

SpecTwin == InitTwin /\ [][NextTwin]_vars

----------------------------------------------------------------------------
(* Properties *)

\* the records of the calls in flight and of the call that has just ended
Logs == {calls[c] : c \in Slots} \cup {last}

Finished(k) == k.pc = "done"

\* the refresh of call k returned a new access token
Refreshed(k) ==
    /\ Len(k.rresps) = 1
    /\ Ok(k.rresps[1]) /\ k.rresps[1].valid
    /\ k.rresps[1].body.access \notin {"", Undef}

\* the body text of resp can be read (a declared-JSON body that is no JSON
\* makes response.json() throw: that case is C23's)
Readable(resp) == resp.ctype = JSON => resp.valid

\* the typed error request builds from a readable 401 response
Error401From(resp) ==
    [type |-> "ApiError", status |-> 401,
     message |-> IF resp.body.detail # Undef THEN resp.body.detail
                 ELSE IF resp.body.message # Undef THEN resp.body.message
                 ELSE "Request failed with status 401",
     data |-> Some(resp.body)]

\* C1: a call with skipAuth false and a stored session whose first response
\* is 401 and whose refresh returned a new access token has issued the
\* original request exactly twice, the second time unchanged but for
\* Authorization: Bearer <new access token>, and it ends as the retried
\* response says: it returns that response's parsed body when it is a success.
C1_RetryOnceWithNewToken ==
    \A k \in Logs :
        (/\ Finished(k) /\ ~k.skipAuth /\ k.state # Null
         /\ Len(k.resps) >= 1 /\ k.resps[1].status = 401
         /\ Refreshed(k))
        => /\ Len(k.sent) = 2
           /\ k.sent[2].path = k.sent[1].path
           /\ k.sent[2].method = k.sent[1].method
           /\ k.sent[2].body = k.sent[1].body
           /\ k.sent[2].auth = "Bearer " \o k.rresps[1].body.access
           /\ (Len(k.resps) = 2 /\ Ok(k.resps[2]) /\ Readable(k.resps[2]))
              => k.reqResult =
                    [type |-> "return", status |-> 0, message |-> "",
                     data |-> IF k.resps[2].status = 204 THEN Null
                              ELSE Some(k.resps[2].body)]

C1_Witness ==
    \E k \in Logs :
        /\ Finished(k) /\ k.op = "request" /\ ~k.skipAuth /\ k.state # Null
        /\ Len(k.resps) = 2 /\ k.resps[1].status = 401 /\ Refreshed(k)
        /\ k.sent[2].auth # k.sent[1].auth
        /\ k.reqResult.type = "return" /\ k.reqResult.data = Some(DataBody("tasks"))

\* C2: one call of request contacts the refresh endpoint at most once and
\* issues the original request at most twice, whatever the server answers;
\* when the retried response is 401 again the call ends there, with the
\* typed error of status 401.
C2_OneRefreshTwoAttempts ==
    \A k \in Logs :
        /\ Len(k.posted) <= 1
        /\ Len(k.rresps) <= 1
        /\ Len(k.sent) <= 2
        /\ (Len(k.resps) = 2 /\ k.resps[2].status = 401)
           => /\ k.pc \in {"body", "done"}
              /\ (Finished(k) /\ Readable(k.resps[2]))
                 => k.reqResult.type = "ApiError" /\ k.reqResult.status = 401

C2_Witness ==
    \E k \in Logs :
        /\ Finished(k) /\ Len(k.resps) = 2 /\ k.resps[2].status = 401
        /\ Len(k.posted) = 1 /\ Len(k.sent) = 2
        /\ k.reqResult.type = "ApiError" /\ k.reqResult.status = 401

\* the refresh of call k got a response that is not 2xx
RefreshRefused(k) ==
    /\ Len(k.rresps) = 1
    /\ k.rresps[1] # NoResponse
    /\ ~Ok(k.rresps[1])

\* C3: when an authenticated request gets 401 and the refresh call gets a
\* non-2xx response, the store is cleared by the refresh, the original
\* request is not issued again, and request ends with the typed error of
\* status 401 built from the original 401 response, the store being empty.
C3_RefreshRefused ==
    \A k \in Logs :
        (~k.skipAuth /\ Len(k.resps) >= 1 /\ k.resps[1].status = 401
         /\ RefreshRefused(k))
        => /\ k.afterRefresh = Some(Null)
           /\ Len(k.sent) = 1
           /\ Len(k.resps) = 1
           /\ (Finished(k) /\ Readable(k.resps[1]))
              => /\ k.reqResult = Error401From(k.resps[1])
                 /\ impl = "frontend" => k.reqAtEnd = Null

C3_Witness ==
    \E k \in Logs :
        /\ Finished(k) /\ k.op = "request" /\ k.state # Null
        /\ Len(k.resps) = 1 /\ k.resps[1].status = 401 /\ RefreshRefused(k)
        /\ k.result.type = "ApiError" /\ k.result.status = 401
        /\ k.result.message = "Unauthorized"

\* C4: whenever the frontend request ends with the typed error of status 401
\* for a call with skipAuth false, getState() is null at that moment.
C4_ClearedBefore401 ==
    \A k \in Logs :
        (impl = "frontend" /\ Finished(k) /\ ~k.skipAuth
         /\ k.reqResult.type = "ApiError" /\ k.reqResult.status = 401)
        => k.reqAtEnd = Null

\* the refresh succeeded, the store holds the refreshed session, and the
\* retried response is 401 again
C4_Witness ==
    \E k \in Logs :
        /\ impl = "frontend"
        /\ Finished(k) /\ k.op = "request" /\ ~k.skipAuth /\ isBrowser
        /\ k.reqResult.type = "ApiError" /\ k.reqResult.status = 401
        /\ Refreshed(k) /\ Len(k.resps) = 2

\* C5: right after a successful refresh the store holds the new access token
\* with the refresh token and the user that were stored when the refresh
\* started.
C5_RefreshKeepsRefreshTokenAndUser ==
    \A k \in Logs :
        (Len(k.rresps) = 1 /\ Ok(k.rresps[1]) /\ k.rresps[1].valid
         /\ k.afterRefresh # <<>>)
        => k.afterRefresh =
              Some(Some([tokens |-> [access |-> k.rresps[1].body.access,
                                     refresh |-> k.rstate[1].tokens.refresh],
                         user |-> k.rstate[1].user]))

C5_Witness ==
    \E k \in Logs :
        /\ Refreshed(k) /\ k.afterRefresh # <<>>
        /\ k.afterRefresh[1] # Null
        /\ k.afterRefresh[1][1].tokens.access # k.rstate[1].tokens.access
        /\ k.afterRefresh[1][1].tokens.refresh = k.rstate[1].tokens.refresh

\* C6: a call with skipAuth false and a stored session with an access token
\* carries Authorization: Bearer <stored access token>; when its response is
\* not 401 it makes no refresh call and writes nothing to the store.
C6_BearerAndNoRefresh ==
    \A k \in Logs :
        (~k.skipAuth /\ k.state # Null /\ k.state[1].tokens.access \notin {"", Undef}
         /\ Len(k.sent) >= 1)
        => /\ k.sent[1].auth = "Bearer " \o k.state[1].tokens.access
           /\ (Len(k.resps) >= 1 /\ k.resps[1].status # 401)
              => /\ k.posted = <<>>
                 /\ k.rresps = <<>>
                 /\ k.reqOps = <<>>
                 /\ Len(k.sent) = 1

C6_Witness ==
    \E k \in Logs :
        /\ Finished(k) /\ k.op = "request" /\ ~k.skipAuth /\ k.state # Null
        /\ Len(k.resps) = 1 /\ k.resps[1].status = 500
        /\ k.sent[1].auth = "Bearer A1"
        /\ k.reqAtEnd # Null

\* C7: a network failure of the refresh call is caught by
\* refreshAccessToken: the store is cleared, the original request is not
\* issued again, and the caller gets the typed 401 error of the original
\* response, never the network exception.
C7_RefreshNetworkFailure ==
    \A k \in Logs :
        (Len(k.rresps) = 1 /\ k.rresps[1] = NoResponse)
        => /\ k.afterRefresh = Some(Null)
           /\ Len(k.sent) = 1
           /\ k.reqResult.type # "TypeError"
           /\ (Finished(k) /\ Readable(k.resps[1]))
              => k.reqResult = Error401From(k.resps[1])

C7_Witness ==
    \E k \in Logs :
        /\ Finished(k) /\ k.op = "request"
        /\ k.rresps = <<NoResponse>>
        /\ k.result.type = "ApiError" /\ k.result.status = 401

\* the User the spec describes for a wire user: id as a string, a missing
\* name replaced by the email
StoredUserFor(raw) ==
    [id |-> IF raw.id.t = "num" THEN DecimalString(raw.id.n) ELSE raw.id.s,
     email |-> raw.email,
     name |-> IF raw.name = Undef THEN raw.email ELSE raw.name]

\* C8: when login or register returns, on a response {access, refresh, user},
\* the store (in a browser) holds exactly those tokens and the normalized
\* user, and getSession() returns them; {id: 7, email: "a@b.com"} is stored
\* as {id: "7", email: "a@b.com", name: "a@b.com"}.
C8_LoginStoresSession ==
    \A k \in Logs :
        LET b == k.resps[1].body
        IN  (Finished(k) /\ k.op \in {"login", "register"}
             /\ k.result.type = "return" /\ isBrowser)
            => /\ k.atEnd =
                    Some([tokens |-> [access |-> b.access, refresh |-> b.refresh],
                          user |-> StoredUserFor(b.user[1])])
               /\ k.sessionAtEnd =
                    Some([accessToken |-> b.access, refreshToken |-> b.refresh,
                          user |-> StoredUserFor(b.user[1])])
               /\ impl = "frontend" => k.session = k.sessionAtEnd
               /\ (b.user[1] = [id |-> Num(7), email |-> "a@b.com", name |-> Undef])
                  => k.atEnd[1].user =
                        [id |-> "7", email |-> "a@b.com", name |-> "a@b.com"]

C8_Witness ==
    \E k \in Logs :
        /\ Finished(k) /\ k.op = "login" /\ k.result.type = "return" /\ isBrowser
        /\ k.sessionAtEnd =
              Some([accessToken |-> "A1", refreshToken |-> "R1",
                    user |-> [id |-> "7", email |-> "a@b.com", name |-> "a@b.com"]])

\* C9: logout never ends with an error, whatever became of the revoke
\* request, and the store is empty when it returns; with no refresh token
\* stored it sends no request.
C9_LogoutBestEffort ==
    \A k \in Logs :
        (k.op = "logout")
        => /\ Finished(k) => (k.result.type = "return" /\ k.atEnd = Null)
           /\ (k.lstate = Null \/ k.lstate[1].tokens.refresh \in {"", Undef})
              => (k.sent = <<>> /\ Finished(k))

\* the revoke request failed, by status and by transport
C9_Witness ==
    \E k \in Logs :
        /\ Finished(k) /\ k.op = "logout" /\ k.lstate # Null
        /\ Len(k.sent) = 1
        /\ k.reqResult.type \in {"ApiError", "TypeError"}
        /\ k.result.type = "return"

\* C10: in a browser, getState() returns null when no session was ever set,
\* and after any sequence of setState, clear and updateUser it returns the
\* value most recently written, field by field.
C10_GetStateReturnsLastWritten ==
    /\ (isBrowser /\ got.op = "getState") => got.value = written
    /\ isBrowser => getState(isBrowser, storage) = written

C10_Witness ==
    /\ isBrowser /\ got.op = "getState"
    /\ got.value # Null
    /\ got.value[1].tokens.access = "A2"
    /\ got.value[1].user.id = "7"
    /\ got.value[1].user.name = "a@b.com"

----------------------------------------------------------------------------
(* Session Store: subscriptions and writes (SpecStore) *)

\* listeners whose last subscribe was not followed by an unsubscribe
Active == {l \in Listeners : subs[l] = "subscribed"}

\* the invocations of listener l made by the last store call
Invocations(l) == {i \in 1..Len(notified) : notified[i].listener = l}

\* getState() when the last store call began
Current == getState(isBrowser, before)

\* the last store call was one that notifies
Notifying ==
    \/ got.op \in {"setState", "clear"}
    \/ got.op = "updateUser" /\ Current # Null

\* the state the last store call handed to writeStorage
JustWritten ==
    IF got.op = "setState" THEN arg
    ELSE IF got.op = "updateUser" /\ Current # Null
    THEN Some([Current[1] EXCEPT !.user = arg[1]])
    ELSE Null

\* C11: each setState, each clear and each updateUser that finds a session
\* invokes every listener that is subscribed and not unsubscribed exactly
\* once, with the state just written (the one getState() returns in a
\* browser), within the call; a listener that was unsubscribed, or never
\* subscribed, is invoked by no call.
C11_ListenersInvokedOnce ==
    /\ Notifying =>
           /\ \A l \in Active :
                  /\ Cardinality(Invocations(l)) = 1
                  /\ \A i \in Invocations(l) : notified[i].state = JustWritten
           /\ isBrowser => JustWritten = getState(isBrowser, storage)
    /\ \A l \in Listeners \ Active : Invocations(l) = {}

C11_Witness ==
    /\ got.op = "setState"
    /\ subs["L1"] = "unsubscribed" /\ subs["L2"] = "subscribed"
    /\ notified = <<[listener |-> "L2", state |-> arg]>>
    /\ isBrowser /\ getState(isBrowser, storage) = arg

\* C12: updateUser(user) with a stored session leaves both tokens as they
\* were, stores user as the user, and notifies the subscribers with that
\* session; with no stored session the storage is as before and no listener
\* is invoked.
C12_UpdateUserReplacesUserOnly ==
    got.op = "updateUser" =>
        LET now == getState(isBrowser, storage) IN
        IF Current # Null
        THEN /\ now # Null
             /\ now[1].tokens = Current[1].tokens
             /\ now[1].user = arg[1]
             /\ Len(notified) = Len(listeners)
             /\ \A i \in 1..Len(notified) : notified[i].state = now
        ELSE /\ storage = before
             /\ notified = <<>>

C12_Witness ==
    /\ got.op = "updateUser"
    /\ Current # Null /\ Current[1].user # arg[1]
    /\ getState(isBrowser, storage)[1].user = arg[1]
    /\ Len(notified) = 2

\* C13: clear() invokes every subscribed listener with null, once each and
\* within the call, and getState() after it returns null.
C13_ClearNotifiesNull ==
    got.op = "clear" =>
        /\ \A l \in Active :
               \E i \in 1..Len(notified) :
                   /\ notified[i] = [listener |-> l, state |-> Null]
                   /\ Invocations(l) = {i}
        /\ getState(isBrowser, storage) = Null

C13_Witness ==
    /\ got.op = "clear"
    /\ Current # Null
    /\ Active = Listeners
    /\ Len(notified) = 2
    /\ getState(isBrowser, storage) = Null

\* C14: clear() on an empty store leaves the storage as it was, and after any
\* clear() the store is empty and one more clear() would leave the storage
\* the same: clear() twice is clear() once.
C14_ClearIdempotent ==
    /\ got.op = "clear" =>
           /\ getState(isBrowser, storage) = Null
           /\ clear(isBrowser, storage) = storage
           /\ before = <<>> => storage = before
    /\ clear(isBrowser, clear(isBrowser, storage)) = clear(isBrowser, storage)

C14_Witness ==
    /\ got.op = "clear"
    /\ isBrowser
    /\ before = <<>> /\ storage = <<>>
    /\ written = Null /\ got.value # Null

\* C26: getState() always returns: it returns null when storage is
\* unavailable (no browser) and when the stored text fails to parse, and it
\* throws in no state.
C26_GetStateNeverThrows ==
    got.op = "getState" =>
        /\ ~got.threw
        /\ ~isBrowser => got.value = Null
        /\ before \in CorruptTexts => got.value = Null

C26_Witness ==
    /\ got.op = "getState" /\ isBrowser
    /\ before = <<"{oops">> /\ storage = before
    /\ got.value = Null /\ ~got.threw
    /\ listeners # <<>>

----------------------------------------------------------------------------
(* Concurrent calls *)

\* C15 as stated: every refresh attempt of a call posts the refresh token
\* that was in the Session Store when the call started.
C15_PostsTokenOfCallStart ==
    \A k \in Logs :
        \A i \in 1..Len(k.posted) :
            /\ HasRefresh(k.state)
            /\ k.posted[i] = k.state[1].tokens.refresh

\* C15 (amended): a call starts a refresh attempt only if the store held a
\* refresh token when the call started, at most once, and the attempt posts
\* the refresh token that is in the Session Store at the moment the attempt
\* starts (when the 401 arrives), whatever was there when the call started.
C15_PostsCurrentRefreshToken ==
    [][\A c \in Slots :
          Len(calls'[c].posted) > Len(calls[c].posted) =>
              /\ calls[c].posted = <<>>
              /\ HasRefresh(calls[c].state)
              /\ getState(isBrowser, storage) # Null
              /\ calls'[c].posted =
                     <<getState(isBrowser, storage)[1].tokens.refresh>>]_vars

C15_Witness ==
    \E k \in Logs :
        /\ k.op = "request"
        /\ Len(k.posted) = 1
        /\ HasRefresh(k.state)
        /\ k.posted[1] # k.state[1].tokens.refresh
        /\ k.posted[1] = "R2"

\* two different calls, as <<k, j>>: two slots, or the call that has just
\* ended and a call in a slot
Pairs ==
    {<<calls[q[1]], calls[q[2]]>> : q \in {r \in Slots \X Slots : r[1] # r[2]}} \cup
    (IF keep THEN {}
     ELSE {<<last, calls[c]>> : c \in Slots} \cup {<<calls[c], last>> : c \in Slots})

\* an authenticated request call made with a stored session got 401 first
Got401(k) ==
    /\ k.op = "request" /\ ~k.skipAuth /\ HasRefresh(k.state)
    /\ Len(k.resps) >= 1 /\ k.resps[1].status = 401

\* the refresh of call k failed: refused, unreadable, without token or rejected
RefreshFailed(k) == Len(k.rresps) = 1 /\ k.pc # "refreshBody" /\ ~Refreshed(k)

\* C16 as stated: of two authenticated request calls that both got 401, the
\* failure of one call's refresh never keeps the other from performing its
\* refresh, and its retry when that refresh succeeds.
C16_RefreshNeverPrevented ==
    \A p \in Pairs :
        LET k == p[1]
            j == p[2]
        IN  (Got401(k) /\ Got401(j) /\ RefreshFailed(j) /\ Finished(k))
            => /\ Len(k.posted) = 1
               /\ Refreshed(k) => Len(k.sent) = 2

\* C16 (amended): a call that has started its refresh ends as its own
\* responses say, whatever happened to the other call's refresh: with a new
\* access token from its own refresh it retries once and ends as the retried
\* response says, without one it does not retry and ends as its first
\* response says.  A call whose 401 arrives when the session is gone (the
\* other call's refresh failed and cleared it) posts no refresh, does not
\* retry and ends as its 401 response says.
C16_RefreshIndependentOnceStarted ==
    \A k \in Logs :
        (Finished(k) /\ k.rcalled)
        => IF k.posted = <<>>
           THEN /\ ~CanRefresh(k.rstate)
                /\ k.rresps = <<>>
                /\ Len(k.sent) = 1
                /\ k.reqResult = FinalOutcome(k.resps[1])
           ELSE IF Refreshed(k)
           THEN /\ Len(k.sent) = 2
                /\ k.sent[2].auth = Bearer(k.rresps[1].body.access)
                /\ k.reqResult = IF Len(k.resps) = 2 THEN FinalOutcome(k.resps[2])
                                 ELSE NetworkError
           ELSE /\ Len(k.sent) = 1
                /\ k.reqResult = FinalOutcome(k.resps[1])

C16_Witness ==
    \E p \in Pairs :
        LET k == p[1]
            j == p[2]
        IN  /\ Got401(k) /\ Got401(j) /\ k.state = j.state
            /\ RefreshFailed(j) /\ j.afterRefresh = Some(Null)
            /\ Finished(k) /\ Refreshed(k)
            /\ k.reqResult = Returned(Some(DataBody("tasks")))
            /\ k.reqAtEnd # Null

\* C17 as stated: of several calls made with the same stored session that
\* each got 401, each has made its own refresh attempt.
C17_EachCallRefreshes ==
    \A p \in Pairs :
        LET k == p[1]
            j == p[2]
        IN  (Got401(k) /\ Got401(j) /\ k.state = j.state)
            => Len(k.posted) = 1 /\ Len(j.posted) = 1

\* C17 (amended): calls are not coalesced.  A call with a session at its
\* start that gets 401 calls refreshAccessToken in that very step, and when
\* the session is still stored it posts its own refresh then, whether or not
\* another call's refresh is in flight; it retries only with the access
\* token of its own refresh response, and not at all when its own refresh
\* failed, whatever another call's refresh has stored meanwhile.
C17_NotCoalesced ==
    \A k \in Logs :
        /\ (~k.skipAuth /\ HasRefresh(k.state)
            /\ Len(k.resps) >= 1 /\ k.resps[1].status = 401) => k.rcalled
        /\ k.rcalled => (Len(k.posted) = 1 <=> CanRefresh(k.rstate))
        /\ Len(k.sent) = 2 =>
               /\ Refreshed(k)
               /\ k.sent[2].auth = Bearer(k.rresps[1].body.access)
        /\ RefreshFailed(k) => Len(k.sent) = 1

C17_Witness ==
    \E p \in Pairs :
        LET k == p[1]
            j == p[2]
        IN  /\ Got401(k) /\ Got401(j) /\ k.state = j.state
            /\ k.pc = "refresh" /\ j.pc = "refresh"
            /\ k.posted = <<"R1">> /\ j.posted = <<"R1">>

\* call k retried after its refresh and the retried response is a readable
\* success
RetriedOk(k) ==
    /\ Got401(k) /\ Refreshed(k)
    /\ Len(k.resps) = 2 /\ Ok(k.resps[2]) /\ Readable(k.resps[2])

\* C18: when two request calls both got 401, both refreshes returned an
\* access token and both retried responses are successes, both calls have
\* returned the body of their retried response, and once both have ended
\* the store holds the refresh token and the user the calls started with
\* and the access token of the refresh that wrote last.
C18_LastWriterWins ==
    \A p \in Pairs :
        LET k == p[1]
            j == p[2]
        IN  (Finished(k) /\ Finished(j) /\ RetriedOk(k) /\ RetriedOk(j))
            => /\ k.reqResult = Returned(Some(k.resps[2].body))
               /\ j.reqResult = Returned(Some(j.resps[2].body))
               /\ writer \in Slots
               /\ getState(isBrowser, storage) =
                      Some([tokens |-> [access |-> calls[writer].rresps[1].body.access,
                                        refresh |-> k.state[1].tokens.refresh],
                            user |-> k.state[1].user])

C18_Witness ==
    \E p \in Pairs :
        LET k == p[1]
            j == p[2]
        IN  /\ Finished(k) /\ Finished(j) /\ RetriedOk(k) /\ RetriedOk(j)
            /\ k.state = j.state /\ k.rstate = k.state /\ j.rstate = j.state
            /\ k.rresps[1].body.access = "A2" /\ j.rresps[1].body.access = "A1"
            /\ writer \in Slots /\ calls[writer] = j
            /\ getState(isBrowser, storage)[1].tokens = [access |-> "A1", refresh |-> "R1"]

\* C19: nothing cancels a call in flight.  The step in which a logout ends
\* changes the record of no other call; the refresh of a call whose response
\* body arrives later writes its session whatever the store holds by then,
\* an empty store included; and a login or register whose response arrives
\* later stores its session likewise.
C19_InFlightCallsStillWrite ==
    [][/\ (last'.op = "logout" /\ Finished(last')) =>
              \A d \in Slots :
                  calls'[d] # calls[d] => calls[d].op \in {"logout", "idle"}
       /\ \A c \in Slots :
              (/\ isBrowser
               /\ calls[c].pc = "refreshBody"
               /\ calls[c].rresps[1].valid
               /\ calls'[c] # calls[c])
              => getState(isBrowser, storage') =
                     Some([tokens |-> [access |-> calls[c].rresps[1].body.access,
                                       refresh |-> calls[c].rstate[1].tokens.refresh],
                           user |-> calls[c].rstate[1].user])
       /\ (/\ isBrowser
           /\ last'.op \in {"login", "register"}
           /\ Finished(last') /\ last'.reqResult.type = "return")
          => getState(isBrowser, storage') # Null]_vars

\* the store is not empty although logout has returned, cleared it, and no
\* call was started after it: the refresh of a request that was in flight
\* wrote afterwards
C19_Witness ==
    \E p \in Pairs :
        LET l == p[1]
            k == p[2]
        IN  /\ keep
            /\ l.op = "logout" /\ Finished(l) /\ l.atEnd = Null
            /\ l.startsAtEnd = 2 /\ started = 2
            /\ k.op = "request" /\ Refreshed(k) /\ Len(k.afterRefresh) = 1
            /\ getState(isBrowser, storage) # Null
            /\ getState(isBrowser, storage) = k.afterRefresh[1]

----------------------------------------------------------------------------
(* Errors *)

\* the last response call k received
FinalResponse(k) == k.resps[Len(k.resps)]

\* call k has ended on a readable response with an error status other than 401
EndedOnError(k) ==
    /\ Finished(k) /\ Len(k.resps) >= 1
    /\ ~Ok(FinalResponse(k)) /\ FinalResponse(k).status # 401
    /\ Readable(FinalResponse(k))

\* request has raised the typed error with the status and the body of resp
RaisedTypedError(k, resp) ==
    /\ k.reqResult.type = "ApiError"
    /\ k.reqResult.status = resp.status
    /\ k.reqResult.data = IF resp.ctype = JSON THEN Some(resp.body)
                          ELSE Some(TextBody(resp.body.payload))

\* C20 as stated: a call whose final response has an error status other
\* than 401 raises the typed error with that status and body, has issued the
\* request exactly once, without a refresh, and has written nothing to the
\* store.
C20_FinalErrorIssuedOnce ==
    \A k \in Logs :
        EndedOnError(k)
        => /\ RaisedTypedError(k, FinalResponse(k))
           /\ Len(k.sent) = 1
           /\ k.posted = <<>>
           /\ k.reqOps = <<>>

\* C20 (amended): a call whose final response has an error status other
\* than 401 raises the typed error with that status and body and issues
\* nothing after it.  When that response is the first one, the request was
\* issued once, no refresh was made and the call wrote nothing to the store;
\* when it answers the retry after a refresh, the request was issued twice
\* and the one write of the call is the refresh's.
C20_ErrorNotRetried ==
    \A k \in Logs :
        EndedOnError(k)
        => /\ RaisedTypedError(k, FinalResponse(k))
           /\ IF Len(k.resps) = 1
              THEN /\ Len(k.sent) = 1
                   /\ k.posted = <<>> /\ ~k.rcalled
                   /\ k.reqOps = <<>>
              ELSE /\ Len(k.resps) = 2 /\ Len(k.sent) = 2
                   /\ k.resps[1].status = 401 /\ Refreshed(k)
                   /\ Len(k.posted) = 1
                   /\ k.reqOps = <<"setState">>

C20_Witness ==
    \E k \in Logs :
        /\ EndedOnError(k) /\ k.op = "request" /\ ~k.skipAuth /\ HasRefresh(k.state)
        /\ Len(k.resps) = 1 /\ Len(k.sent) = 1
        /\ k.reqResult.type = "ApiError" /\ k.reqResult.status = 500
        /\ k.reqResult.data = Some(TextBody("Server Error"))
        /\ k.reqAtEnd = k.state

----------------------------------------------------------------------------
(* Failures that are not the typed error *)

\* C21: when the fetch of the original request rejects, request ends in that
\* very step with the exception fetch raised, not with the typed error; the
\* call has received no response, has issued the request once, has made no
\* refresh and no store write, and the step leaves the storage as it was
\* (logout, which catches the exception, then clears the store itself).
C21_TransportFailurePropagates ==
    [][(Finished(last') /\ Len(last'.sent) = 1 /\ last'.resps = <<>>)
       => /\ last'.reqResult = NetworkError
          /\ last'.op # "logout" => last'.result = NetworkError
          /\ last'.posted = <<>> /\ last'.rresps = <<>> /\ ~last'.rcalled
          /\ last'.reqOps = <<>>
          /\ last'.op # "logout" => storage' = storage]_vars

C21_Witness ==
    \E k \in Logs :
        /\ Finished(k) /\ k.op = "request" /\ ~k.skipAuth /\ HasRefresh(k.state)
        /\ Len(k.sent) = 1 /\ k.resps = <<>>
        /\ k.result = NetworkError
        /\ k.reqAtEnd = k.state

\* C22: a call made with skipAuth true carries no Authorization header, is
\* issued once, makes no refresh and no store write, whatever the status of
\* its response, 401 included; no step of request changes the storage for
\* it (login and register store the session themselves once request has
\* returned).
C22_SkipAuthTouchesNothing ==
    [][/\ \A k \in Logs' :
              k.skipAuth =>
                  /\ \A i \in 1..Len(k.sent) : k.sent[i].auth = ""
                  /\ Len(k.sent) <= 1
                  /\ k.posted = <<>> /\ k.rresps = <<>> /\ ~k.rcalled
                  /\ k.reqOps = <<>>
       /\ \A c \in Slots :
              (calls[c].skipAuth /\ calls'[c] # calls[c])
              => \/ storage' = storage
                 \/ /\ last'.op \in {"login", "register"}
                    /\ last'.result.type = "return"]_vars

C22_Witness ==
    \E k \in Logs :
        /\ Finished(k) /\ k.op = "request" /\ k.skipAuth
        /\ HasAccess(k.state) /\ HasRefresh(k.state)
        /\ Len(k.resps) = 1 /\ k.resps[1].status = 401
        /\ k.sent = <<[path |-> "/tasks/", method |-> "GET", body |-> <<>>, auth |-> ""]>>
        /\ k.reqResult.type = "ApiError" /\ k.reqResult.status = 401
        /\ k.reqAtEnd = k.state

\* call k has ended on a response that declares JSON, whose body is no JSON
\* and which request reads (any status but 204)
EndedOnMalformed(k) ==
    /\ Finished(k) /\ Len(k.resps) >= 1 /\ Len(k.resps) = Len(k.sent)
    /\ FinalResponse(k).ctype = JSON /\ ~FinalResponse(k).valid
    /\ FinalResponse(k).status # 204

\* C23: when the body of the response request ends on is declared JSON and
\* is no JSON, request ends with the parse exception of response.json(),
\* whatever the status: never with the typed error, never with a value, and
\* without the clear() that goes with the typed error of status 401.  Every
\* caller but logout gets that exception: not everything thrown is the
\* typed error.
C23_MalformedJsonPropagates ==
    \A k \in Logs :
        EndedOnMalformed(k)
        => /\ k.reqResult = SyntaxError
           /\ k.reqResult.type # "ApiError"
           /\ k.op # "logout" => k.result = SyntaxError
           /\ ~k.rcalled => k.reqOps = <<>>
           /\ k.op \notin {"logout"} => k.atEnd = k.reqAtEnd

C23_Witness ==
    \E k \in Logs :
        /\ EndedOnMalformed(k) /\ k.op = "deleteTask" /\ ~k.skipAuth
        /\ impl = "frontend"
        /\ k.state = Null
        /\ FinalResponse(k).status = 401
        /\ k.result.type = "SyntaxError"

\* call k has ended on a readable response with an error status
EndedOnFailure(k) ==
    /\ Finished(k) /\ Len(k.resps) >= 1 /\ Len(k.resps) = Len(k.sent)
    /\ ~Ok(FinalResponse(k)) /\ Readable(FinalResponse(k))

\* "Request failed with status N" for the statuses the endpoints answer with
GenericMessage(status) ==
    CASE status = 400 -> "Request failed with status 400"
      [] status = 401 -> "Request failed with status 401"
      [] status = 404 -> "Request failed with status 404"
      [] status = 500 -> "Request failed with status 500"
      [] status = 502 -> "Request failed with status 502"

\* the message the spec gives the typed error raised for resp
MessageFor(resp) ==
    IF resp.ctype = JSON /\ resp.body.detail \notin {Undef, NotAString}
    THEN resp.body.detail
    ELSE IF resp.ctype = JSON /\ resp.body.message \notin {Undef, NotAString}
    THEN resp.body.message
    ELSE GenericMessage(resp.status)

\* C24: a call that ends on a response with an error status ends with the
\* typed error whose status is that status, whose data is the body as it was
\* read (the JSON value, the text, or nothing when no content type is
\* declared) and whose message is the body's detail if that is a string,
\* else its message if that is a string, else "Request failed with status
\* N".  (apiRequest of do-smart-ai takes detail and message whatever their
\* type, and reads a body without content type as text: it is compared on
\* string fields and declared content types.)
C24_TypedErrorMessage ==
    \A k \in Logs :
        LET resp == FinalResponse(k) IN
        (/\ EndedOnFailure(k)
         /\ \/ impl = "frontend"
            \/ /\ NotAString \notin {resp.body.detail, resp.body.message}
               /\ resp.ctype # "")
        => /\ k.reqResult.type = "ApiError"
           /\ k.reqResult.status = resp.status
           /\ k.reqResult.message = MessageFor(resp)
           /\ k.reqResult.data =
                  IF resp.ctype = JSON THEN Some(resp.body)
                  ELSE IF resp.ctype # "" THEN Some(TextBody(resp.body.payload))
                  ELSE Null

C24_Witness ==
    \E k \in Logs :
        /\ EndedOnFailure(k) /\ k.op = "deleteTask" /\ impl = "frontend"
        /\ FinalResponse(k) =
               Response(400, JSON, TRUE, ErrorBody(NotAString, "Bad request"))
        /\ Len(k.resps) = 2
        /\ k.result = ApiError("Bad request", 400,
                               Some(ErrorBody(NotAString, "Bad request")))

----------------------------------------------------------------------------
(* 204 *)

\* C25: a call whose last response, first or retried, has status 204 is
\* never at the await that reads the body, and request returns undefined
\* for it, whatever content type the response declares and whatever its
\* body is; deleteTask then resolves without a value.
C25_NoContentReturnsNothing ==
    \A k \in Logs :
        (Len(k.resps) >= 1 /\ Len(k.resps) = Len(k.sent)
         /\ FinalResponse(k).status = 204)
        => /\ k.pc # "body"
           /\ Finished(k)
           /\ k.reqResult = Returned(Null)
           /\ k.op = "deleteTask" => k.result = Returned(Null)

C25_Witness ==
    \E k \in Logs :
        /\ Finished(k) /\ k.op = "deleteTask" /\ impl = "frontend"
        /\ Len(k.resps) = 2 /\ Len(k.sent) = 2
        /\ FinalResponse(k) = Response(204, JSON, FALSE, NoBody)
        /\ k.result = Returned(Null)

----------------------------------------------------------------------------
(* Normalization (SpecNorm) *)

TaskFields ==
    {"id", "title", "description", "dueDate", "priority", "status",
     "createdAt", "updatedAt", "userId"}

\* a payload field that is missing or null
Missing(v) == v \in {Undef, JNull}

Text(v) ==
    CASE v = Num(0) -> "0"
      [] v = Num(7) -> "7"
      [] v = Num(42) -> "42"
      [] v.t = "str" -> v.s

\* C28: the id of a normalized User, Task or HistoryItem is the decimal
\* representation of a numeric wire id and the wire id itself when that is
\* a string, and so is the userId of a normalized Task whenever the payload
\* has one, the number 0 included.
C28_IdsAreStrings ==
    norm.fn # "none" =>
        /\ norm.result.id = Text(norm.payload.id)
        /\ (norm.fn = "normalizeTask" /\ Present(norm.payload.userId))
           => norm.result.userId = Text(norm.payload.userId)

----------------------------------------------------------------------------
(* getCurrentUser, login and register (SpecSeq: one call at a time) *)

\* the User getCurrentUser makes of the body of GET /auth/me/: the name is
\* the body's name, else (frontend) the profile's name, else the email
UserOf(me) ==
    [id |-> Text(me.id),
     email |-> me.email,
     name |-> IF me.name # Undef THEN me.name
              ELSE IF impl = "frontend" /\ me.profile # Null
                      /\ me.profile[1].name # Undef
              THEN me.profile[1].name
              ELSE me.email]

\* getCurrentUser has ended
EndedMe(k) == Finished(k) /\ k.op = "getCurrentUser"

Is401(res) == res.type = "ApiError" /\ res.status = 401

\* C29 as stated: getCurrentUser on success stores the normalized user with
\* the tokens as they are and returns it, on the typed error of status 401
\* leaves the store empty and returns null, and on any other failure
\* rethrows it with the Session Store as it was when the call started.
C29_OtherFailuresLeaveStore ==
    \A k \in Logs :
        EndedMe(k) =>
            IF k.reqResult.type = "return"
            THEN /\ k.user = Some(UserOf(FinalResponse(k).body.me[1]))
                 /\ k.reqAtEnd # Null =>
                        k.atEnd = Some([k.reqAtEnd[1] EXCEPT
                                           !.user = UserOf(FinalResponse(k).body.me[1])])
            ELSE IF Is401(k.reqResult)
            THEN k.atEnd = Null /\ k.result = Returned(Null) /\ k.user = Null
            ELSE k.result = k.reqResult /\ k.atEnd = k.state

\* C29 (amended): the same, but on any other failure getCurrentUser
\* rethrows it and changes nothing itself: the store is as request left it,
\* which is as the call found it unless request had refreshed (the new
\* access token is stored, or the session is gone after a failed refresh).
C29_GetCurrentUser ==
    \A k \in Logs :
        EndedMe(k) =>
            IF k.reqResult.type = "return"
            THEN /\ k.user = Some(UserOf(FinalResponse(k).body.me[1]))
                 /\ k.result.type = "return"
                 /\ IF k.reqAtEnd # Null
                    THEN /\ k.atEnd =
                               Some([k.reqAtEnd[1] EXCEPT
                                        !.user = UserOf(FinalResponse(k).body.me[1])])
                         /\ k.atEnd[1].tokens = k.reqAtEnd[1].tokens
                    ELSE k.atEnd = Null
            ELSE IF Is401(k.reqResult)
            THEN k.atEnd = Null /\ k.result = Returned(Null) /\ k.user = Null
            ELSE /\ k.result = k.reqResult
                 /\ k.user = Null
                 /\ k.atEnd = k.reqAtEnd
                 /\ ~k.rcalled => (k.atEnd = k.state /\ k.reqOps = <<>>)
                 /\ k.rcalled => k.atEnd = IF k.afterRefresh = <<>> THEN k.state
                                           ELSE k.afterRefresh[1]

\* the refresh has stored a new access token and the retried request failed
\* with 500: rethrown, with the refreshed session in the store
C29_Witness ==
    \E k \in Logs :
        /\ EndedMe(k) /\ isBrowser
        /\ Len(k.resps) = 2 /\ k.resps[2].status = 500 /\ Refreshed(k)
        /\ k.result.type = "ApiError" /\ k.result.status = 500
        /\ k.state # Null /\ k.atEnd # Null
        /\ k.atEnd[1].tokens.access = "A2" /\ k.state[1].tokens.access = "A1"

----------------------------------------------------------------------------
\* login and register that fail

\* a login or register call that ended by throwing
FailedSignIn(k) ==
    /\ Finished(k)
    /\ k.op \in {"login", "register"}
    /\ k.result.type # "return"

\* C30: when login or register fails, by a non-2xx response (401 included)
\* or by a transport failure, the Session Store is exactly as it was before
\* the call (no write, no clear, no refresh) and no subscriber was notified.
C30_FailedSignInTouchesNothing ==
    \A k \in Logs :
        FailedSignIn(k) =>
            /\ k.reqOps = <<>>
            /\ ~k.rcalled
            /\ k.told = <<>>
            /\ k.atEnd = k.state
            /\ k.user = Null

\* wrong credentials: login answered 401 while a session was stored and a
\* subscriber was listening; it threw the typed error
C30_Witness ==
    \E k \in Logs :
        /\ FailedSignIn(k) /\ k.op = "login"
        /\ isBrowser /\ listeners # <<>>
        /\ k.state # Null
        /\ Len(k.resps) = 1 /\ k.resps[1].status = 401
        /\ k.result.type = "ApiError" /\ k.result.status = 401

----------------------------------------------------------------------------
\* a 401 that arrives after the session has changed

\* the request that got the 401 carried the credentials of the session
\* `stored`: its access token, or the session is the one the call's own
\* refresh has just written
SentWithCredentialsOf(k, stored) ==
    \/ k.sent[Len(k.sent)].auth = Bearer(stored[1].tokens.access)
    \/ k.afterRefresh = Some(stored)

\* C32: when request clears the store on a 401 (part_000:217-219) and a
\* session is stored at that moment, the request that received the 401 was
\* sent with that session's credentials: a 401 for a request issued with no
\* session, or with an older one, never clears the session of a later login.
C32_ClearsOnlyItsOwnSession ==
    \A k \in Logs :
        (Finished(k) /\ k.wiped # <<>> /\ k.wiped[1] # Null)
        => SentWithCredentialsOf(k, k.wiped[1])

----------------------------------------------------------------------------
\* the stored user and the stored tokens

\* C31: whenever the store holds a session, its user is the user to whom
\* the stored tokens were issued: the refresh token and the access token stem
\* from the login or register that gave the user (the access token possibly
\* from a refresh of it), under every interleaving of login, register,
\* logout, refresh and getCurrentUser.
C31_UserOwnsTokens ==
    LET state == getState(isBrowser, storage) IN
    state # Null =>
        /\ TokenOwner(state[1].tokens.refresh) = state[1].user.id
        /\ state[1].tokens.access \in AccessTokens
               => TokenOwner(state[1].tokens.access) = state[1].user.id

----------------------------------------------------------------------------
\* AuthProvider

\* C33: once AuthProvider has finished loading and no auth call is in
\* flight, isAuthenticated is true exactly when the Session Store holds a
\* session, whatever the outcome of the effect's getCurrentUser() and the
\* order in which it, login and logout completed.
C33_AuthenticatedIffSession ==
    (provider.phase = "mounted" /\ ~provider.loading /\ Quiet)
    => (provider.isAuthenticated <=> getState(isBrowser, storage) # Null)

\* C34: the body AuthProvider's login(email, password) or register(email,
\* password, name) posts to /auth/login/ or /auth/register/ carries the
\* values that were passed in.
C34_PostsWhatWasPassed ==
    \A k \in Logs :
        (k.given # <<>> /\ k.sent # <<>>)
        => k.sent[1].body =
               IF k.op = "login" THEN LoginBody(k.given[1], k.given[2])
               ELSE RegisterBody(k.given[1], k.given[2], k.given[3])

----------------------------------------------------------------------------
\* the two client modules

\* the same returned value, or an error of the same kind and status
SameOutcome(a, b) ==
    /\ a.type = b.type
    /\ a.type = "return" => a.data = b.data
    /\ a.type = "ApiError" => a.status = b.status

\* the fetches a finished call has seen
ScriptOf(k) ==
    [first |-> IF Len(k.resps) >= 1 THEN k.resps[1] ELSE NoResponse,
     refresh |-> IF Len(k.rresps) >= 1 THEN k.rresps[1] ELSE NoResponse,
     retry |-> IF Len(k.resps) >= 2 THEN k.resps[2] ELSE NoResponse]

\* requestAlone is what the steps of request add up to: every deleteTask
\* call made with no other call in flight (SpecSeq) ended as requestAlone
\* says for the answers it got
RequestAloneAgreesWithSteps ==
    \A k \in Logs :
        (Finished(k) /\ k.op = "deleteTask") =>
            LET raw == IF k.state = Null THEN <<>> ELSE JSONstringify(k.state[1])
                script == ScriptOf(k)
                alone == requestAlone(impl, raw, script.first, script.refresh,
                                      script.retry)
            IN  /\ alone.result = k.reqResult
                /\ getState(isBrowser, alone.storage) = k.reqAtEnd

\* C35: for every sequence of server responses to one authenticated call
\* started from the same stored session, apiRequest of do-smart-ai and
\* request of the frontend give the same outcome and leave the Session Store
\* in the same final state.
C35_SameOutcomeAndStore ==
    norm.fn = "request"
    => /\ SameOutcome(norm.result.frontend.result, norm.result.doSmartAi.result)
       /\ getState(isBrowser, norm.result.frontend.storage)
              = getState(isBrowser, norm.result.doSmartAi.storage)

====
